---- MODULE Spec2Model ----
(***************************************************************************)
(* Speed Demon core: the policy engine (SystemOptimizer), the game-mode    *)
(* session (GameDetector), the telemetry loop (ProcessMonitor) and the     *)
(* job scheduler (OptimizationScheduler), as state machines over one OS    *)
(* process table.                                                          *)
(*                                                                         *)
(* The specifications share the variables:                                 *)
(*   Spec         policy engine over the process table                     *)
(*   GameSpec     game session driving the policy engine                   *)
(*   SessionSpec  game sessions over detected games                        *)
(*   ScopeSpec    game sessions beside processes tuned by hand             *)
(*   MonSpec      telemetry polling loop and its subscribers               *)
(*   PollSpec     telemetry reads against the process table                *)
(*   SchedSpec    job scheduler over the timer registry and a clock        *)
(*   TimerSpec    job timers against the clock                             *)
(*   EditSpec     schedule table edited while a job runs                   *)
(*   StopSpec     both loops started and stopped (StopFairSpec: with       *)
(*                fair thread scheduling)                                  *)
(*   ConcSpec     policy engine called from several threads, one step per  *)
(*                access to the record table or the process                *)
(*   StatsSpec    ConcSpec with the statistics read, step by step          *)
(*   SnapSpec     one optimize_process call, step by step                  *)
(*   BoostSpec    policy engine with boost recomputation, one process      *)
(*   PairSpec     optimize, recompute and remove, call by call             *)
(*   PureSpec     profile resolution and the game classifier over names    *)
(***************************************************************************)
EXTENDS Integers, Sequences, FiniteSets, TLC

VARIABLES
    platform,             \* platform.system() of the host
    procs,                \* OS process table: pid -> [alive, nice, affinity]
    sys,                  \* system-wide settings the game session touches
    optimized_processes,  \* SystemOptimizer.optimized_processes (ordered dict)
    gaming_processes,     \* GameDetector.gaming_processes
    game_mode_active,     \* GameDetector.game_mode_active
    original_settings,    \* GameDetector.original_settings
    now,                  \* the wall clock, datetime.now(), in minutes
    monitoring,           \* ProcessMonitor.monitoring
    monitor_thread,       \* ProcessMonitor.monitor_thread: "none", "running", "in_pass" or "exited"
    monitor_callbacks,    \* ProcessMonitor.callbacks, in registration order
    process_cache,        \* ProcessMonitor.process_cache
    monitor_called,       \* the subscribers called in the last polling cycle, in call order
    schedules,            \* OptimizationScheduler.schedules (ordered dict of schedule_info)
    jobs,                 \* the timer registry's Job objects, by creation; registered = still in schedule.jobs
    saved_schedules,      \* the content of config/schedules.json
    running,              \* OptimizationScheduler.running
    scheduler_thread,     \* OptimizationScheduler.scheduler_thread: "none", "running", "exited" or "crashed"
    scheduler_callbacks,  \* OptimizationScheduler.callbacks
    next_id,              \* the number of schedule ids handed out so far
    fired,                \* the schedules whose action list ran in the last step, in order
    attempted,            \* for each of them, the actions _run_schedule attempted, in order
    threads,              \* ConcSpec: the frame of each thread calling into the policy engine
    probe,                \* PureSpec: the last evaluation of a pure function, input and output
    last                  \* the last step on the engine, the session, the monitor or the OS: operation,
                          \* pids it was given or found, result, precondition (scheduler steps leave it)

coreVars == <<platform, procs, sys, optimized_processes, gaming_processes, game_mode_active, original_settings, now>>

monVars == <<monitoring, monitor_thread, monitor_callbacks, process_cache, monitor_called>>

schedVars == <<schedules, jobs, saved_schedules, running, scheduler_thread, scheduler_callbacks, next_id, fired, attempted>>

threadVars == <<threads, probe>>

\* what the policy engine and the game session never touch
otherVars == <<monVars, schedVars, threadVars>>

(***************************************************************************)
(* Bounds of the model                                                     *)
(***************************************************************************)
MaxPid == 2

MaxClock == 1

MaxCallbacks == 3

MaxSchedules == 2

MaxJobs == 2

MaxSchedCallbacks == 1

RunsCap == 2

\* threads calling into the policy engine at once
MaxThreads == 2

\* tokens of a process name handed to the pure functions
MaxNameLen == 3

\* schedule.every(5).minutes of an idle schedule
IdlePeriod == 5

\* cpu_percent < 10: the system is idle
IdleThreshold == 10

CpuCount == 6

\* gpus[0].load > 0.3, in percent
GpuThreshold == 30

\* max_processes of get_processes
MaxProcesses == 50

\* processes[:30]
TopProcesses == 30

Pids == 1..MaxPid

\* cpu_percent readings the OS may return for a process
CpuLevels == {0, 40, 80}

(***************************************************************************)
(* Names.  A process name is a sequence of tokens; `key in name` is        *)
(* containment of a contiguous token sequence, name.lower() maps tokens.   *)
(***************************************************************************)
ProcNames == << <<"valorant", ".exe">>, <<"dota2", ".exe">>, <<"witcher3", ".exe">>, <<"Chrome", "helper", ".exe">> >>

NameOf(pid) == ProcNames[((pid - 1) % Len(ProcNames)) + 1]

LowerTok(t) == CASE t = "Chrome" -> "chrome" [] t = "Valorant" -> "valorant" [] t = "Unity" -> "unity" [] OTHER -> t

Lower(name) == [i \in 1..Len(name) |-> LowerTok(name[i])]

Contains(name, key) == \E i \in 0..(Len(name) - Len(key)) : \A j \in 1..Len(key) : name[i + j] = key[j]

EmptyDict == [k \in {} |-> k]

(***************************************************************************)
(* SystemOptimizer                                                         *)
(***************************************************************************)
ProfileKeys == <<"chrome", "firefox", "photoshop", "game">>

ProfileTable == [
    chrome    |-> [priority |-> "high",     cpu_affinity |-> "all",               gpu_acceleration |-> TRUE, memory_optimization |-> TRUE,  disk_priority |-> "high"],
    firefox   |-> [priority |-> "high",     cpu_affinity |-> "all",               gpu_acceleration |-> TRUE, memory_optimization |-> TRUE,  disk_priority |-> "high"],
    photoshop |-> [priority |-> "realtime", cpu_affinity |-> "all",               gpu_acceleration |-> TRUE, memory_optimization |-> FALSE, disk_priority |-> "high"],
    game      |-> [priority |-> "realtime", cpu_affinity |-> "performance_cores", gpu_acceleration |-> TRUE, memory_optimization |-> FALSE, disk_priority |-> "high"],
    default   |-> [priority |-> "high",     cpu_affinity |-> "all",               gpu_acceleration |-> TRUE, memory_optimization |-> TRUE,  disk_priority |-> "normal"] ]

\* the key under which a profile of the table would match a name
KeyName(key) == <<key>>

\* psutil priority classes (Windows) and nice values (Unix-like)
PriorityValue(plat, priority) ==
    IF plat = "Windows"
    THEN CASE priority = "idle" -> 64 [] priority = "below_normal" -> 16384 [] priority = "normal" -> 32
           [] priority = "above_normal" -> 32768 [] priority = "high" -> 128 [] priority = "realtime" -> 256
    ELSE CASE priority = "idle" -> 19 [] priority = "below_normal" -> 10 [] priority = "normal" -> 0
           [] priority = "above_normal" -> 0 - 5 [] priority = "high" -> 0 - 10 [] priority = "realtime" -> 0 - 20

AllCores == 0..(CpuCount - 1)

NewProcess(plat) == [alive |-> TRUE, nice |-> PriorityValue(plat, "normal"), affinity |-> AllCores]

DeadProcess(plat) == [alive |-> FALSE, nice |-> PriorityValue(plat, "normal"), affinity |-> AllCores]

\* ordered-dict operations on optimized_processes (a sequence of records keyed by pid)
HasRecord(recs, pid) == \E i \in 1..Len(recs) : recs[i].pid = pid

RecordOf(recs, pid) == recs[CHOOSE i \in 1..Len(recs) : recs[i].pid = pid]

\* a table that is a plain list: every store appends
DictAppend(recs, r) == Append(recs, r)

DictSet(recs, r) ==
    IF HasRecord(recs, r.pid)
    THEN [i \in 1..Len(recs) |-> IF recs[i].pid = r.pid THEN r ELSE recs[i]]
    ELSE Append(recs, r)

DictDel(recs, pid) == SelectSeq(recs, LAMBDA r : r.pid # pid)

NoRecord == [pid |-> 0]

RecordOrNone(recs, pid) == IF HasRecord(recs, pid) THEN RecordOf(recs, pid) ELSE NoRecord

\* What the OS answers during one call: access = "denied" makes every call that
\* modifies the process fail (AccessDenied), "hidden" makes reading it fail as well;
\* io_ok is whether the platform's I/O-priority call goes through, metrics_ok whether
\* the metrics can be read, cpu the cpu_percent reading.
Envs == [access : {"ok", "denied", "hidden"}, io_ok : BOOLEAN, metrics_ok : BOOLEAN, cpu : CpuLevels]

\* _set_process_priority: [ok, proc]
SetProcessPriority(plat, proc, priority, env) ==
    IF proc.alive /\ env.access = "ok"
    THEN [ok |-> TRUE, proc |-> [proc EXCEPT !.nice = PriorityValue(plat, priority)]]
    ELSE [ok |-> FALSE, proc |-> proc]

AffinityCores(affinity_type) ==
    CASE affinity_type = "all" -> AllCores
      [] affinity_type = "performance_cores" -> IF CpuCount > 4 THEN 0..((CpuCount \div 2) - 1) ELSE AllCores
      [] affinity_type = "efficiency_cores" -> IF CpuCount > 4 THEN (CpuCount \div 2)..(CpuCount - 1) ELSE {0}

\* _set_cpu_affinity: [ok, proc]; psutil has no cpu_affinity on macOS
SetCpuAffinity(plat, proc, affinity_type, env) ==
    IF proc.alive /\ env.access = "ok" /\ plat # "Darwin"
    THEN [ok |-> TRUE, proc |-> [proc EXCEPT !.affinity = AffinityCores(affinity_type)]]
    ELSE [ok |-> FALSE, proc |-> proc]

\* _enable_gpu_acceleration
EnableGpuAcceleration(plat) == plat = "Windows"

\* _optimize_memory
OptimizeMemory(plat, proc, env) == plat \in {"Windows", "Linux"} /\ proc.alive /\ env.access = "ok"

\* _set_io_priority
SetIoPriority(plat, proc, priority, env) ==
    CASE plat = "Windows" -> priority \in {"low", "normal", "high", "critical"} /\ proc.alive /\ env.access = "ok" /\ env.io_ok
      [] plat = "Linux" -> priority \in {"idle", "normal", "high"} /\ env.io_ok
      [] OTHER -> FALSE

\* _get_process_metrics: {} when the process cannot be read
GetProcessMetrics(proc, env) == IF proc.alive /\ env.metrics_ok THEN [ok |-> TRUE, cpu_percent |-> env.cpu] ELSE [ok |-> FALSE, cpu_percent |-> 0]

\* profile selection taking the last matching key of the table instead of the first
SelectProfileLast(profile_name, process_name) ==
    IF profile_name # "None" /\ \E i \in 1..Len(ProfileKeys) : ProfileKeys[i] = profile_name
    THEN profile_name
    ELSE IF \E i \in 1..Len(ProfileKeys) : Contains(process_name, KeyName(ProfileKeys[i]))
         THEN ProfileKeys[CHOOSE i \in 1..Len(ProfileKeys) :
                  /\ Contains(process_name, KeyName(ProfileKeys[i]))
                  /\ \A j \in (i + 1)..Len(ProfileKeys) : ~Contains(process_name, KeyName(ProfileKeys[j]))]
         ELSE "default"

\* profile selection of optimize_process (lines 125-137): the key of the profile used
SelectProfile(profile_name, process_name) ==
    IF profile_name # "None" /\ \E i \in 1..Len(ProfileKeys) : ProfileKeys[i] = profile_name
    THEN profile_name
    ELSE IF \E i \in 1..Len(ProfileKeys) : Contains(process_name, KeyName(ProfileKeys[i]))
         THEN ProfileKeys[CHOOSE i \in 1..Len(ProfileKeys) :
                  /\ Contains(process_name, KeyName(ProfileKeys[i]))
                  /\ \A j \in 1..(i - 1) : ~Contains(process_name, KeyName(ProfileKeys[j]))]
         ELSE "default"

OptimizeFail(ps, recs, msg) == [procs |-> ps, recs |-> recs, ok |-> FALSE, msg |-> <<msg>>]

\* optimize_process(pid, profile_name): [procs, recs, ok, msg]
OptimizeProcess(plat, ps, recs, pid, profile_name, env, clock) ==
    IF ~ps[pid].alive THEN OptimizeFail(ps, recs, "Process no longer exists")
    ELSE IF env.access = "hidden" THEN OptimizeFail(ps, recs, "Access denied - try running as administrator")
    ELSE
    LET key  == SelectProfile(profile_name, Lower(NameOf(pid)))
        prof == ProfileTable[key]
        r1   == SetProcessPriority(plat, ps[pid], prof.priority, env)
        r2   == SetCpuAffinity(plat, r1.proc, prof.cpu_affinity, env)
        gpu  == prof.gpu_acceleration /\ EnableGpuAcceleration(plat)
        mem  == prof.memory_optimization /\ OptimizeMemory(plat, r2.proc, env)
        io   == SetIoPriority(plat, r2.proc, prof.disk_priority, env)
        applied == (IF r1.ok THEN <<"priority">> ELSE <<>>) \o (IF r2.ok THEN <<"cpu_affinity">> ELSE <<>>)
                   \o (IF gpu THEN <<"gpu_acceleration">> ELSE <<>>) \o (IF mem THEN <<"memory_optimization">> ELSE <<>>)
                   \o (IF io THEN <<"io_priority">> ELSE <<>>)
        rec  == [pid |-> pid, name |-> NameOf(pid), profile |-> key, timestamp |-> clock, optimizations |-> applied,
                 metrics_before |-> GetProcessMetrics(r2.proc, env), boost_percentage |-> 0]
    IN [procs |-> [ps EXCEPT ![pid] = r2.proc], recs |-> DictSet(recs, rec), ok |-> TRUE, msg |-> <<"Applied", Len(applied)>>]

\* remove_optimization(pid): [procs, recs, ok]
RemoveOptimization(plat, ps, recs, pid, env) ==
    IF ps[pid].alive /\ env.access = "ok" /\ plat # "Darwin"
    THEN [procs |-> [ps EXCEPT ![pid] = [@ EXCEPT !.nice = PriorityValue(plat, "normal"), !.affinity = AllCores]],
          recs |-> DictDel(recs, pid), ok |-> TRUE]
    ELSE IF ps[pid].alive /\ env.access = "ok"
         THEN [procs |-> [ps EXCEPT ![pid] = [@ EXCEPT !.nice = PriorityValue(plat, "normal")]], recs |-> recs, ok |-> FALSE]
         ELSE [procs |-> ps, recs |-> recs, ok |-> FALSE]

Max(a, b) == IF a >= b THEN a ELSE b

Min(a, b) == IF a <= b THEN a ELSE b

\* the CPU factor without its max(0, ...)
CpuFactorSigned(before_cpu, current_cpu) ==
    IF before_cpu > 0 THEN ((before_cpu - current_cpu) * 100) \div before_cpu ELSE 0

\* calculate_boost, lines 382-386: the CPU improvement in percent, nothing when the
\* CPU usage before was 0 (int() of the sum truncates the fraction of this factor)
CpuFactor(before_cpu, current_cpu) ==
    IF before_cpu > 0 THEN Max(0, ((before_cpu - current_cpu) * 100) \div before_cpu) ELSE 0

\* lines 389-392: 25% per optimization applied
BaseBoost(optimizations) == Len(optimizations) * 25

\* lines 394-396: process.nice() < 32
PriorityBoost(nice) == IF nice < 32 THEN 30 ELSE 0

\* line 399: min(int(sum(boost_factors)), 999)
TotalBoost(before_cpu, current_cpu, optimizations, nice) ==
    Min(CpuFactor(before_cpu, current_cpu) + BaseBoost(optimizations) + PriorityBoost(nice), 999)

\* the total returned without being stored in the record
RecomputedUnstored(recs, pid, total) == [recs |-> recs, value |-> total, raised |-> FALSE]

\* lines 401-402: store the total in the record and return it
Recomputed(recs, pid, total) ==
    [recs |-> DictSet(recs, [RecordOf(recs, pid) EXCEPT !.boost_percentage = total]), value |-> total, raised |-> FALSE]

\* calculate_boost with no try/except around the process lookup
CalculateBoostUncaught(plat, ps, recs, pid, env) ==
    IF ~HasRecord(recs, pid) THEN [recs |-> recs, value |-> 0, raised |-> FALSE]
    ELSE IF ~ps[pid].alive \/ env.access = "hidden"
    THEN [recs |-> recs, value |-> 0, raised |-> TRUE]
    ELSE Recomputed(recs, pid, TotalBoost(RecordOf(recs, pid).metrics_before.cpu_percent, GetProcessMetrics(ps[pid], env).cpu_percent,
                                          RecordOf(recs, pid).optimizations, ps[pid].nice))

\* calculate_boost(pid): [recs, value, raised]
CalculateBoost(plat, ps, recs, pid, env) ==
    IF ~HasRecord(recs, pid) THEN [recs |-> recs, value |-> 0, raised |-> FALSE]
    ELSE IF ~ps[pid].alive \/ env.access = "hidden"
    THEN [recs |-> recs, value |-> RecordOf(recs, pid).boost_percentage, raised |-> FALSE]
    ELSE Recomputed(recs, pid, TotalBoost(RecordOf(recs, pid).metrics_before.cpu_percent, GetProcessMetrics(ps[pid], env).cpu_percent,
                                          RecordOf(recs, pid).optimizations, ps[pid].nice))

\* ProcessMonitor.get_process_details(pid): [found, raised, details]; NoSuchProcess and
\* AccessDenied give None, psutil has no cpu_affinity on macOS (AttributeError)
GetProcessDetails(plat, ps, pid, env) ==
    IF ~ps[pid].alive \/ env.access = "hidden" THEN [found |-> FALSE, raised |-> FALSE, details |-> NoRecord]
    ELSE IF plat = "Darwin" THEN [found |-> FALSE, raised |-> TRUE, details |-> NoRecord]
    ELSE [found |-> TRUE, raised |-> FALSE,
          details |-> [pid |-> pid, name |-> NameOf(pid), cpu_percent |-> env.cpu, nice |-> ps[pid].nice, cpu_affinity |-> ps[pid].affinity]]

(***************************************************************************)
(* GameDetector                                                            *)
(***************************************************************************)
\* known_games: process name -> display name and genre (lines 40-60)
KnownGames == {
    [key |-> <<"csgo", ".exe">>,     name |-> "Counter-Strike: Global Offensive", type |-> "fps"],
    [key |-> <<"dota2", ".exe">>,    name |-> "Dota 2",                           type |-> "moba"],
    [key |-> <<"valorant", ".exe">>, name |-> "Valorant",                         type |-> "fps"],
    [key |-> <<"gta5", ".exe">>,     name |-> "Grand Theft Auto V",               type |-> "action"],
    [key |-> <<"witcher3", ".exe">>, name |-> "The Witcher 3",                    type |-> "rpg"] }

\* custom games read from config/game_database.json (lines 62-71): here one entry, unity.exe
CustomGames == { [key |-> <<"unity", ".exe">>, name |-> "Unity Player", type |-> "sandbox"] }

IsKnownGame(process_name) == \E g \in KnownGames \cup CustomGames : g.key = process_name

KnownGame(process_name) == CHOOSE g \in KnownGames \cup CustomGames : g.key = process_name

\* game_indicators (lines 32-35)
GameIndicators == {"unreal", "unity", "cryengine", "frostbite", "gameoverlayui", "d3d", "opengl", "vulkan", "directx"}

HasIndicator(process_name) == \E ind \in GameIndicators : Contains(process_name, <<ind>>)

\* the GPU facility as read during one pass: absent, or a load in percent
GpuReadings == {[available |-> FALSE, load |-> 0], [available |-> TRUE, load |-> 30], [available |-> TRUE, load |-> 60]}

\* _check_gpu_usage
CheckGpuUsage(gpu) == gpu.available /\ gpu.load > GpuThreshold

\* one entry of a process list as the monitor reports it
Snapshot(pid) == [pid |-> pid, name |-> NameOf(pid)]

\* a classifier without the `continue` statements: one entry per rule that matches
DetectEveryRule(process, gpu) ==
    (IF IsKnownGame(Lower(process.name))
     THEN <<[name |-> KnownGame(Lower(process.name)).name, type |-> KnownGame(Lower(process.name)).type,
             pid |-> process.pid, process_name |-> Lower(process.name)]>>
     ELSE <<>>)
    \o (IF HasIndicator(Lower(process.name))
        THEN <<[name |-> process.name, type |-> "unknown", pid |-> process.pid,
                process_name |-> Lower(process.name), detected_by |-> "indicator"]>>
        ELSE <<>>)
    \o (IF CheckGpuUsage(gpu)
        THEN <<[name |-> process.name, type |-> "unknown", pid |-> process.pid,
                process_name |-> Lower(process.name), detected_by |-> "gpu_usage"]>>
        ELSE <<>>)

\* the entry detect_games appends for one process, <<>> when none
DetectOne(process, gpu) ==
    LET process_name == Lower(process.name)
    IN IF IsKnownGame(process_name)
       THEN <<[name |-> KnownGame(process_name).name, type |-> KnownGame(process_name).type,
               pid |-> process.pid, process_name |-> process_name]>>
       ELSE IF HasIndicator(process_name)
       THEN <<[name |-> process.name, type |-> "unknown", pid |-> process.pid,
               process_name |-> process_name, detected_by |-> "indicator"]>>
       ELSE IF CheckGpuUsage(gpu)
       THEN <<[name |-> process.name, type |-> "unknown", pid |-> process.pid,
               process_name |-> process_name, detected_by |-> "gpu_usage"]>>
       ELSE <<>>

RECURSIVE DetectedList(_, _)
\* the list detect_games returns
DetectedList(processes, gpu) ==
    IF processes = <<>> THEN <<>>
    ELSE DetectOne(Head(processes), gpu) \o DetectedList(Tail(processes), gpu)

\* the pids detect_games adds to gaming_processes
DetectedPids(processes, gpu) == {DetectedList(processes, gpu)[i].pid : i \in 1..Len(DetectedList(processes, gpu))}

\* every process list a poll may have produced: distinct pids, possibly stale
Snapshots == {sq \in UNION {[1..n -> Pids] : n \in 0..MaxPid} : \A i, j \in 1..Len(sq) : i # j => sq[i] # sq[j]}

ProcessList(sq) == [i \in 1..Len(sq) |-> Snapshot(sq[i])]

\* the lists a caller can hand to enable_game_mode: results of a detect_games pass
DetectedLists == {DetectedList(ProcessList(sq), gpu) : sq \in Snapshots, gpu \in GpuReadings}

PowerPlans == {"balanced", "high_performance", "power_saver"}

\* _get_power_plan (lines 243-255)
GetPowerPlan(sysv) == IF sysv.power_plan \in PowerPlans THEN sysv.power_plan ELSE "balanced"

\* _set_power_plan (lines 229-241); os.system('powercfg ...') reports no failure: on a
\* host where the command fails (sys.powercfg = "fails") the plan stays as it is
SetPowerPlan(sysv, plan) == IF plan \in PowerPlans /\ sysv.powercfg = "works" THEN [sysv EXCEPT !.power_plan = plan] ELSE sysv

\* _store_original_settings: the new value of original_settings
StoreOriginalSettings(sysv) == [power_plan |-> GetPowerPlan(sysv), gpu_settings |-> EmptyDict, network_settings |-> EmptyDict]

\* _restore_original_settings: the system settings afterwards
RestoreOriginalSettings(sysv, orig) ==
    IF "power_plan" \in DOMAIN orig THEN SetPowerPlan(sysv, orig.power_plan) ELSE sysv

\* _apply_system_game_mode: the system settings afterwards
ApplySystemGameMode(sysv) ==
    [SetPowerPlan(sysv, "high_performance") EXCEPT !.game_bar = "off", !.gpu_mode = "max", !.net_tuning = "gaming"]

\* _optimize_for_fps: with the executable resolved, its fullscreen optimizations are
\* switched off and the timer resolution is lowered (sys.timer stands for both)
OptimizeForFps(ps, sysv, pid, env) ==
    IF ps[pid].alive /\ env.access # "hidden" THEN [sysv EXCEPT !.timer = "low_latency"] ELSE sysv

\* _apply_game_optimizations: [sys, raised]; GameDetector defines no _optimize_for_moba and no _optimize_for_rpg
ApplyGameOptimizations(ps, sysv, game, env) ==
    CASE game.type = "fps" -> [sys |-> OptimizeForFps(ps, sysv, game.pid, env), raised |-> FALSE]
      [] game.type \in {"moba", "rpg"} -> [sys |-> sysv, raised |-> TRUE]
      [] OTHER -> [sys |-> sysv, raised |-> FALSE]

RECURSIVE EnableLoop(_, _, _, _, _, _, _)
\* the loop of enable_game_mode over detected_games (lines 141-146): [procs, recs, sys, raised]
EnableLoop(plat, ps, recs, sysv, games, env, clock) ==
    IF games = <<>> THEN [procs |-> ps, recs |-> recs, sys |-> sysv, raised |-> FALSE]
    ELSE LET o == OptimizeProcess(plat, ps, recs, Head(games).pid, "game", env, clock)
             g == ApplyGameOptimizations(o.procs, sysv, Head(games), env)
         IN IF g.raised
            THEN [procs |-> o.procs, recs |-> o.recs, sys |-> g.sys, raised |-> TRUE]
            ELSE EnableLoop(plat, o.procs, o.recs, g.sys, Tail(games), env, clock)

RECURSIVE RemoveAll(_, _, _, _, _)
\* the loop of disable_game_mode over gaming_processes (lines 161-165): [procs, recs]
RemoveAll(plat, ps, recs, pids, env) ==
    IF pids = {} THEN [procs |-> ps, recs |-> recs]
    ELSE LET pid == CHOOSE q \in pids : TRUE
             r   == RemoveOptimization(plat, ps, recs, pid, env)
         IN RemoveAll(plat, r.procs, r.recs, pids \ {pid}, env)

(***************************************************************************)
(* `last` names the step just taken: op, the pids it was given (or, for    *)
(* detect_games, found), whether it returned success, whether it raised,   *)
(* and pre: had the pid a record (optimize_process), was the session       *)
(* active (enable_game_mode, disable_game_mode).                           *)
(***************************************************************************)
Call(op, pids, ok, raised, pre) == [op |-> op, pids |-> pids, ok |-> ok, raised |-> raised, pre |-> pre]

PidsOf(games) == {games[i].pid : i \in 1..Len(games)}

InitSys == [power_plan : {"balanced", "power_saver"}, powercfg : {"works", "fails"}, game_bar : {"on"}, gpu_mode : {"default"}, net_tuning : {"default"}, timer : {"default"}]

Tids == 1..MaxThreads

\* a thread that is not inside the policy engine
IdleFrame == [op |-> "idle", pc |-> "idle"]

NoProbe == [fn |-> "none"]

InitCommon ==
    /\ procs \in [Pids -> {NewProcess(platform), DeadProcess(platform)}]
    /\ optimized_processes = <<>>
    /\ gaming_processes = {}
    /\ game_mode_active = FALSE
    /\ original_settings = EmptyDict
    /\ now = 0
    /\ monitoring = FALSE
    /\ monitor_thread = "none"
    /\ monitor_callbacks = <<>>
    /\ process_cache = {}
    /\ monitor_called = <<>>
    /\ schedules = <<>>
    /\ jobs = <<>>
    /\ saved_schedules = <<>>
    /\ running = FALSE
    /\ scheduler_thread = "none"
    /\ scheduler_callbacks = <<>>
    /\ next_id = 0
    /\ fired = <<>>
    /\ attempted = <<>>
    /\ threads = [t \in Tids |-> IdleFrame]
    /\ last = Call("init", {}, TRUE, FALSE, FALSE)

Platforms == {"Windows", "Linux", "Darwin"}

Init ==
    /\ platform \in Platforms
    /\ sys = [power_plan |-> "balanced", powercfg |-> "works", game_bar |-> "on", gpu_mode |-> "default", net_tuning |-> "default", timer |-> "default"]
    /\ InitCommon
    /\ probe = NoProbe

\* GameDetector imports winreg: the session exists on Windows only
GameInit ==
    /\ platform = "Windows"
    /\ sys \in InitSys
    /\ InitCommon
    /\ probe = NoProbe

ProfileNames == {"None", "game"}

\* the OS answers explored with the policy engine
OptEnvs == {env \in Envs : env.io_ok = (env.access = "ok") /\ env.metrics_ok = (env.access = "ok") /\ (env.access # "ok" => env.cpu = 0)}

\* the OS answers explored with the game session
GameEnvs == {env \in Envs : env.access # "hidden" /\ env.io_ok /\ env.metrics_ok /\ env.cpu = 40}

\* SystemOptimizer.optimize_process(pid, profile_name)
optimize_process(pid, profile_name, env) ==
    LET o == OptimizeProcess(platform, procs, optimized_processes, pid, profile_name, env, now)
    IN /\ procs' = o.procs
       /\ optimized_processes' = o.recs
       /\ last' = Call("optimize_process", {pid}, o.ok, FALSE, HasRecord(optimized_processes, pid))
       /\ UNCHANGED <<platform, sys, gaming_processes, game_mode_active, original_settings, now, otherVars>>

\* SystemOptimizer.remove_optimization(pid)
remove_optimization(pid, env) ==
    LET r == RemoveOptimization(platform, procs, optimized_processes, pid, env)
    IN /\ procs' = r.procs
       /\ optimized_processes' = r.recs
       /\ last' = Call("remove_optimization", {pid}, r.ok, FALSE, HasRecord(optimized_processes, pid))
       /\ UNCHANGED <<platform, sys, gaming_processes, game_mode_active, original_settings, now, otherVars>>

\* SystemOptimizer.calculate_boost(pid)
calculate_boost(pid, env) ==
    /\ optimized_processes' = CalculateBoost(platform, procs, optimized_processes, pid, env).recs
    /\ last' = Call("calculate_boost", {pid}, TRUE, CalculateBoost(platform, procs, optimized_processes, pid, env).raised,
                    HasRecord(optimized_processes, pid))
    /\ UNCHANGED <<platform, procs, sys, gaming_processes, game_mode_active, original_settings, now, otherVars>>

\* ProcessMonitor.get_process_details(pid)
get_process_details(pid, env) ==
    /\ last' = Call("get_process_details", {pid}, GetProcessDetails(platform, procs, pid, env).found,
                    GetProcessDetails(platform, procs, pid, env).raised, HasRecord(optimized_processes, pid))
    /\ UNCHANGED <<coreVars, otherVars>>

\* detect_games switching the session on by itself when it finds a game
detect_games_autostart(sq, gpu) ==
    /\ gaming_processes' = gaming_processes \cup DetectedPids(ProcessList(sq), gpu)
    /\ game_mode_active' = (game_mode_active \/ DetectedPids(ProcessList(sq), gpu) # {})
    /\ last' = Call("detect_games", DetectedPids(ProcessList(sq), gpu), TRUE, FALSE, game_mode_active)
    /\ UNCHANGED <<platform, procs, sys, optimized_processes, original_settings, now, otherVars>>

\* GameDetector.detect_games(processes)
detect_games(sq, gpu) ==
    /\ gaming_processes' = gaming_processes \cup DetectedPids(ProcessList(sq), gpu)
    /\ last' = Call("detect_games", DetectedPids(ProcessList(sq), gpu), TRUE, FALSE, game_mode_active)
    /\ UNCHANGED <<platform, procs, sys, optimized_processes, game_mode_active, original_settings, now, otherVars>>

\* enable_game_mode without its `if self.game_mode_active: return`
enable_game_mode_unguarded(detected_games, env) ==
    LET l == EnableLoop(platform, procs, optimized_processes, sys, detected_games, env, now)
    IN /\ original_settings' = StoreOriginalSettings(sys)
       /\ procs' = l.procs
       /\ optimized_processes' = l.recs
       /\ sys' = IF l.raised THEN l.sys ELSE ApplySystemGameMode(l.sys)
       /\ game_mode_active' = (game_mode_active \/ ~l.raised)
       /\ last' = Call("enable_game_mode", PidsOf(detected_games), ~l.raised, l.raised, game_mode_active)
       /\ UNCHANGED <<platform, gaming_processes, now, otherVars>>

\* GameDetector.enable_game_mode(optimizer, detected_games)
enable_game_mode(detected_games, env) ==
    IF game_mode_active
    THEN /\ last' = Call("enable_game_mode", PidsOf(detected_games), TRUE, FALSE, TRUE)
         /\ UNCHANGED <<coreVars, otherVars>>
    ELSE LET l == EnableLoop(platform, procs, optimized_processes, sys, detected_games, env, now)
         IN /\ original_settings' = StoreOriginalSettings(sys)
            /\ procs' = l.procs
            /\ optimized_processes' = l.recs
            /\ sys' = IF l.raised THEN l.sys ELSE ApplySystemGameMode(l.sys)
            /\ game_mode_active' = ~l.raised
            /\ last' = Call("enable_game_mode", PidsOf(detected_games), ~l.raised, l.raised, FALSE)
            /\ UNCHANGED <<platform, gaming_processes, now, otherVars>>

\* GameDetector.disable_game_mode(optimizer)
disable_game_mode(env) ==
    IF ~game_mode_active
    THEN /\ last' = Call("disable_game_mode", {}, TRUE, FALSE, FALSE)
         /\ UNCHANGED <<coreVars, otherVars>>
    ELSE LET r == RemoveAll(platform, procs, optimized_processes, gaming_processes, env)
         IN /\ procs' = r.procs
            /\ optimized_processes' = r.recs
            /\ sys' = RestoreOriginalSettings(sys, original_settings)
            /\ gaming_processes' = {}
            /\ game_mode_active' = FALSE
            /\ last' = Call("disable_game_mode", {}, TRUE, FALSE, TRUE)
            /\ UNCHANGED <<platform, original_settings, now, otherVars>>

\* the OS: a process exits
ProcessExit(pid) ==
    /\ procs[pid].alive
    /\ procs' = [procs EXCEPT ![pid] = DeadProcess(platform)]
    /\ last' = Call("exit", {pid}, TRUE, FALSE, FALSE)
    /\ UNCHANGED <<platform, sys, optimized_processes, gaming_processes, game_mode_active, original_settings, now, otherVars>>

\* the OS: a process starts under a free pid
ProcessStart(pid) ==
    /\ ~procs[pid].alive
    /\ procs' = [procs EXCEPT ![pid] = NewProcess(platform)]
    /\ last' = Call("start", {pid}, TRUE, FALSE, FALSE)
    /\ UNCHANGED <<platform, sys, optimized_processes, gaming_processes, game_mode_active, original_settings, now, otherVars>>

\* a minute passes
Tick ==
    /\ now < MaxClock
    /\ now' = now + 1
    /\ last' = Call("tick", {}, TRUE, FALSE, FALSE)
    /\ UNCHANGED <<platform, procs, sys, optimized_processes, gaming_processes, game_mode_active, original_settings, otherVars>>

vars == <<coreVars, monVars, schedVars, threadVars, last>>

(***************************************************************************)
(* Spec: the policy engine over the process table                          *)
(***************************************************************************)
Next ==
    \/ \E pid \in Pids, pn \in ProfileNames, env \in OptEnvs : optimize_process(pid, pn, env)
    \/ \E pid \in Pids, env \in OptEnvs : remove_optimization(pid, env)
    \/ \E pid \in Pids : ProcessExit(pid)
    \/ \E pid \in Pids : ProcessStart(pid)

Spec == Init /\ [][Next]_vars

(***************************************************************************)
(* BoostSpec: the policy engine with boost recomputation and process       *)
(* details, over one process that runs and may exit                        *)
(***************************************************************************)
BoostInit ==
    /\ Init
    /\ procs[1].alive
    /\ \A pid \in Pids \ {1} : ~procs[pid].alive

BoostNext ==
    \/ \E pid \in Pids, pn \in ProfileNames, env \in OptEnvs : optimize_process(pid, pn, env)
    \/ \E pid \in Pids, env \in OptEnvs : remove_optimization(pid, env)
    \/ \E pid \in Pids, env \in OptEnvs : calculate_boost(pid, env)
    \/ \E pid \in Pids, env \in OptEnvs : get_process_details(pid, env)
    \/ \E pid \in Pids : ProcessExit(pid)

BoostSpec == BoostInit /\ [][BoostNext]_vars

(***************************************************************************)
(* ConcSpec: the policy engine called from several threads.  The engine    *)
(* takes no lock, so a call is a sequence of steps, one per access to the  *)
(* record table or to the process, and the steps of different threads      *)
(* interleave with each other and with the process exiting.                *)
(***************************************************************************)
\* the frame of a thread whose call has returned; value is the message of
\* optimize_process or the integer of calculate_boost
Returned(op, pid, ok, raised, value) == [op |-> op, pid |-> pid, pc |-> "done", ok |-> ok, raised |-> raised, value |-> value]

Running(t) == threads[t].pc \notin {"idle", "done"}

\* the OS answers explored with concurrent callers
ConcEnvs == {env \in Envs : env.access = "ok" /\ env.io_ok /\ env.metrics_ok /\ env.cpu = 40}

concFrame == <<platform, sys, gaming_processes, game_mode_active, original_settings, now, monVars, schedVars, probe, last>>

\* optimize_process, lines 119-137: resolve the process and the profile
opt_resolve(t, pid, profile_name) ==
    /\ ~Running(t)
    /\ threads' = [threads EXCEPT ![t] =
           IF ~procs[pid].alive
           THEN Returned("optimize_process", pid, FALSE, FALSE, <<"Process no longer exists">>)
           ELSE [op |-> "optimize_process", pid |-> pid, pc |-> "priority",
                 key |-> SelectProfile(profile_name, Lower(NameOf(pid))), applied |-> <<>>]]
    /\ UNCHANGED <<procs, optimized_processes, concFrame>>

\* lines 142-145
opt_priority(t, env) ==
    /\ threads[t].pc = "priority"
    /\ procs' = [procs EXCEPT ![threads[t].pid] =
           SetProcessPriority(platform, procs[threads[t].pid], ProfileTable[threads[t].key].priority, env).proc]
    /\ threads' = [threads EXCEPT ![t].pc = "affinity", ![t].applied =
           IF SetProcessPriority(platform, procs[threads[t].pid], ProfileTable[threads[t].key].priority, env).ok
           THEN Append(@, "priority") ELSE @]
    /\ UNCHANGED <<optimized_processes, concFrame>>

\* lines 147-150
opt_affinity(t, env) ==
    /\ threads[t].pc = "affinity"
    /\ procs' = [procs EXCEPT ![threads[t].pid] =
           SetCpuAffinity(platform, procs[threads[t].pid], ProfileTable[threads[t].key].cpu_affinity, env).proc]
    /\ threads' = [threads EXCEPT ![t].pc = "rest", ![t].applied =
           IF SetCpuAffinity(platform, procs[threads[t].pid], ProfileTable[threads[t].key].cpu_affinity, env).ok
           THEN Append(@, "cpu_affinity") ELSE @]
    /\ UNCHANGED <<optimized_processes, concFrame>>

\* lines 152-163: GPU flag, memory trim, I/O priority
opt_rest(t, env) ==
    /\ threads[t].pc = "rest"
    /\ threads' = [threads EXCEPT ![t].pc = "store", ![t].applied =
           @ \o (IF ProfileTable[threads[t].key].gpu_acceleration /\ EnableGpuAcceleration(platform)
                 THEN <<"gpu_acceleration">> ELSE <<>>)
             \o (IF ProfileTable[threads[t].key].memory_optimization /\ OptimizeMemory(platform, procs[threads[t].pid], env)
                 THEN <<"memory_optimization">> ELSE <<>>)
             \o (IF SetIoPriority(platform, procs[threads[t].pid], ProfileTable[threads[t].key].disk_priority, env)
                 THEN <<"io_priority">> ELSE <<>>)]
    /\ UNCHANGED <<procs, optimized_processes, concFrame>>

\* process.name() at line 167: psutil caches the name on Windows only; elsewhere it
\* is read again and raises NoSuchProcess once the process has exited
NameReadable(plat, proc) == plat = "Windows" \/ proc.alive

\* lines 165-176: store the record; NoSuchProcess from process.name() goes to line 179.
\* before: the table as this call found it when it stored
opt_store(t, env) ==
    /\ threads[t].pc = "store"
    /\ IF NameReadable(platform, procs[threads[t].pid])
       THEN /\ optimized_processes' = DictSet(optimized_processes,
                   [pid |-> threads[t].pid, name |-> NameOf(threads[t].pid), profile |-> threads[t].key, timestamp |-> now,
                    optimizations |-> threads[t].applied,
                    metrics_before |-> GetProcessMetrics(procs[threads[t].pid], env), boost_percentage |-> 0])
            /\ threads' = [threads EXCEPT ![t] = [op |-> "optimize_process", pid |-> threads[t].pid, pc |-> "log",
                                                  key |-> threads[t].key, applied |-> threads[t].applied,
                                                  before |-> optimized_processes]]
       ELSE /\ threads' = [threads EXCEPT ![t] = Returned("optimize_process", threads[t].pid, FALSE, FALSE,
                                                          <<"Process no longer exists">>)]
            /\ UNCHANGED optimized_processes
    /\ UNCHANGED <<procs, concFrame>>

\* lines 178-180: logger.info formats process.name() once more, after the record is
\* stored; NoSuchProcess goes to line 179 and the call returns (False, ...)
opt_log(t) ==
    /\ threads[t].pc = "log"
    /\ threads' = [threads EXCEPT ![t] =
           IF NameReadable(platform, procs[threads[t].pid])
           THEN Returned("optimize_process", threads[t].pid, TRUE, FALSE, <<"Applied", Len(threads[t].applied)>>)
           ELSE Returned("optimize_process", threads[t].pid, FALSE, FALSE, <<"Process no longer exists">>)]
    /\ UNCHANGED <<procs, optimized_processes, concFrame>>

\* remove_optimization, lines 409-421: reset priority and affinity
rem_reset(t, pid, env) ==
    /\ ~Running(t)
    /\ procs' = RemoveOptimization(platform, procs, optimized_processes, pid, env).procs
    /\ threads' = [threads EXCEPT ![t] =
           IF RemoveOptimization(platform, procs, optimized_processes, pid, env).ok
           THEN [op |-> "remove_optimization", pid |-> pid, pc |-> "check"]
           ELSE Returned("remove_optimization", pid, FALSE, FALSE, 0)]
    /\ UNCHANGED <<optimized_processes, concFrame>>

\* line 422: if pid in self.optimized_processes
rem_check(t) ==
    /\ threads[t].pc = "check"
    /\ threads' = [threads EXCEPT ![t] =
           IF HasRecord(optimized_processes, threads[t].pid)
           THEN [@ EXCEPT !.pc = "del"]
           ELSE Returned("remove_optimization", threads[t].pid, TRUE, FALSE, 0)]
    /\ UNCHANGED <<procs, optimized_processes, concFrame>>

\* line 423: del self.optimized_processes[pid]; a KeyError ends in the bare except
rem_del(t) ==
    /\ threads[t].pc = "del"
    /\ optimized_processes' = DictDel(optimized_processes, threads[t].pid)
    /\ threads' = [threads EXCEPT ![t] =
           Returned("remove_optimization", threads[t].pid, HasRecord(optimized_processes, threads[t].pid), FALSE, 0)]
    /\ UNCHANGED <<procs, concFrame>>

\* calculate_boost, lines 371-372: if pid not in self.optimized_processes: return 0
boost_check(t, pid) ==
    /\ ~Running(t)
    /\ threads' = [threads EXCEPT ![t] =
           IF HasRecord(optimized_processes, pid)
           THEN [op |-> "calculate_boost", pid |-> pid, pc |-> "measure", total |-> 0]
           ELSE Returned("calculate_boost", pid, TRUE, FALSE, 0)]
    /\ UNCHANGED <<procs, optimized_processes, concFrame>>

\* lines 374-399: read the process and the record, compute the total
boost_measure(t, env) ==
    /\ threads[t].pc = "measure"
    /\ threads' = [threads EXCEPT ![t] =
           IF procs[threads[t].pid].alive /\ HasRecord(optimized_processes, threads[t].pid)
           THEN [@ EXCEPT !.pc = "write", !.total =
                    TotalBoost(RecordOf(optimized_processes, threads[t].pid).metrics_before.cpu_percent,
                               GetProcessMetrics(procs[threads[t].pid], env).cpu_percent,
                               RecordOf(optimized_processes, threads[t].pid).optimizations, procs[threads[t].pid].nice)]
           ELSE [@ EXCEPT !.pc = "handler"]]
    /\ UNCHANGED <<procs, optimized_processes, concFrame>>

\* line 401: self.optimized_processes[pid]['boost_percentage'] = total_boost
boost_write(t) ==
    /\ threads[t].pc = "write"
    /\ IF HasRecord(optimized_processes, threads[t].pid)
       THEN /\ optimized_processes' = DictSet(optimized_processes,
                   [RecordOf(optimized_processes, threads[t].pid) EXCEPT !.boost_percentage = threads[t].total])
            /\ threads' = [threads EXCEPT ![t] = Returned("calculate_boost", threads[t].pid, TRUE, FALSE, threads[t].total)]
       ELSE /\ threads' = [threads EXCEPT ![t].pc = "handler"]
            /\ UNCHANGED optimized_processes
    /\ UNCHANGED <<procs, concFrame>>

\* lines 403-405: except: return self.optimized_processes[pid].get('boost_percentage', 0)
boost_handler(t) ==
    /\ threads[t].pc = "handler"
    /\ threads' = [threads EXCEPT ![t] =
           IF HasRecord(optimized_processes, threads[t].pid)
           THEN Returned("calculate_boost", threads[t].pid, TRUE, FALSE, RecordOf(optimized_processes, threads[t].pid).boost_percentage)
           ELSE Returned("calculate_boost", threads[t].pid, FALSE, TRUE, 0)]
    /\ UNCHANGED <<procs, optimized_processes, concFrame>>

ConcNext ==
    \/ \E t \in Tids, pid \in Pids, pn \in ProfileNames : opt_resolve(t, pid, pn)
    \/ \E t \in Tids, env \in ConcEnvs : opt_priority(t, env)
    \/ \E t \in Tids, env \in ConcEnvs : opt_affinity(t, env)
    \/ \E t \in Tids, env \in ConcEnvs : opt_rest(t, env)
    \/ \E t \in Tids, env \in ConcEnvs : opt_store(t, env)
    \/ \E t \in Tids : opt_log(t)
    \/ \E t \in Tids, pid \in Pids, env \in ConcEnvs : rem_reset(t, pid, env)
    \/ \E t \in Tids : rem_check(t)
    \/ \E t \in Tids : rem_del(t)
    \/ \E t \in Tids, pid \in Pids : boost_check(t, pid)
    \/ \E t \in Tids, env \in ConcEnvs : boost_measure(t, env)
    \/ \E t \in Tids : boost_write(t)
    \/ \E t \in Tids : boost_handler(t)
    \/ \E pid \in Pids : ProcessExit(pid)

\* one process that runs and may exit; the other pids name no process
ConcInit ==
    /\ Init
    /\ procs[1].alive
    /\ \A pid \in Pids \ {1} : ~procs[pid].alive

ConcSpec == ConcInit /\ [][ConcNext]_vars

(***************************************************************************)
(* PureSpec: profile resolution and one classifier pass, each evaluated on *)
(* an input drawn from names built of tokens                               *)
(***************************************************************************)
Pending == "pending"

\* tokens of the process names handed to profile resolution
ProfileTokens == {"Chrome", "firefox", "game", "helper", ".exe"}

NameInputs == UNION {[1..n -> ProfileTokens] : n \in 1..MaxNameLen}

\* profile_name arguments: None, two keys of the table, a name that is no key
ProfileNameInputs == {"None", "game", "chrome", "turbo"}

\* process names handed to the classifier: the known game valorant.exe, the custom
\* game unity.exe (also an indicator match), an indicator match, and two that match nothing
GameNames == { <<"Valorant", ".exe">>, <<"unity", ".exe">>, <<"Unity", "launcher">>, <<"launcher", ".exe">>, <<"valorant">> }

\* process lists as the monitor reports them: distinct pids
ProcessLists == {pl \in UNION {[1..n -> [pid : Pids, name : GameNames]] : n \in 0..MaxPid} :
                    \A i, j \in 1..Len(pl) : i # j => pl[i].pid # pl[j].pid}

PureInputs ==
    [fn : {"select_profile"}, profile_name : ProfileNameInputs, name : NameInputs, out : {Pending}]
    \cup [fn : {"detect_games"}, processes : ProcessLists, gpu : GpuReadings, out : {Pending}]

PureInit ==
    /\ platform = "Windows"
    /\ sys = [power_plan |-> "balanced", powercfg |-> "works", game_bar |-> "on", gpu_mode |-> "default", net_tuning |-> "default", timer |-> "default"]
    /\ InitCommon
    /\ probe \in PureInputs

\* optimize_process, lines 123-137: lowercase the name and select the profile
select_profile ==
    /\ probe.fn = "select_profile" /\ probe.out = Pending
    /\ probe' = [probe EXCEPT !.out = SelectProfile(probe.profile_name, Lower(probe.name))]
    /\ UNCHANGED <<coreVars, monVars, schedVars, threads, last>>

\* GameDetector.detect_games(processes) on a list of named processes
detect_pass ==
    /\ probe.fn = "detect_games" /\ probe.out = Pending
    /\ probe' = [probe EXCEPT !.out = DetectedList(probe.processes, probe.gpu)]
    /\ gaming_processes' = gaming_processes \cup DetectedPids(probe.processes, probe.gpu)
    /\ UNCHANGED <<platform, procs, sys, optimized_processes, game_mode_active, original_settings, now,
                   monVars, schedVars, threads, last>>

PureNext ==
    \/ select_profile
    \/ detect_pass

PureSpec == PureInit /\ [][PureNext]_vars

(***************************************************************************)
(* GameSpec: the game session driving the policy engine                    *)
(***************************************************************************)
GameNext ==
    \/ \E sq \in Snapshots, gpu \in GpuReadings : detect_games(sq, gpu)
    \/ \E games \in DetectedLists, env \in GameEnvs : enable_game_mode(games, env)
    \/ \E env \in GameEnvs : disable_game_mode(env)
    \/ \E pid \in Pids : ProcessExit(pid)
    \/ \E pid \in Pids : ProcessStart(pid)

GameSpec == GameInit /\ [][GameNext]_vars


(***************************************************************************)
(* ProcessMonitor                                                          *)
(***************************************************************************)
\* memory_percent readings, in tenths of a percent
MemLevels == {0, 50}

\* what psutil reports for each process during one poll
Readings == [Pids -> [cpu_percent : CpuLevels, memory_percent : MemLevels]]

\* the entry get_processes builds for one process
ProcessInfo(pid, rd) == [pid |-> pid, name |-> NameOf(pid), cpu_percent |-> rd[pid].cpu_percent, memory_percent |-> rd[pid].memory_percent]

\* pinfo['cpu_percent'] == 0 and pinfo['memory_percent'] < 0.1
Negligible(info) == info.cpu_percent = 0 /\ info.memory_percent < 1

RECURSIVE CollectProcesses(_, _, _, _)
\* the loop of get_processes over process_iter (ascending pids), stopping at max_processes
CollectProcesses(ps, rd, pid, acc) ==
    IF pid > MaxPid \/ Len(acc) >= MaxProcesses THEN acc
    ELSE IF ps[pid].alive /\ ~Negligible(ProcessInfo(pid, rd))
         THEN CollectProcesses(ps, rd, pid + 1, Append(acc, ProcessInfo(pid, rd)))
         ELSE CollectProcesses(ps, rd, pid + 1, acc)

RECURSIVE InsertByCpu(_, _)
\* list.sort(key=cpu_percent, reverse=True) is stable: an entry goes behind its equals
InsertByCpu(sorted, info) ==
    IF sorted = <<>> THEN <<info>>
    ELSE IF Head(sorted).cpu_percent >= info.cpu_percent
         THEN <<Head(sorted)>> \o InsertByCpu(Tail(sorted), info)
         ELSE <<info>> \o sorted

RECURSIVE SortByCpu(_)
SortByCpu(list) == IF list = <<>> THEN <<>> ELSE InsertByCpu(SortByCpu(SubSeq(list, 1, Len(list) - 1)), list[Len(list)])

\* get_processes(): the list returned
GetProcesses(ps, rd) ==
    LET sorted == SortByCpu(CollectProcesses(ps, rd, 1, <<>>))
    IN SubSeq(sorted, 1, IF Len(sorted) < TopProcesses THEN Len(sorted) ELSE TopProcesses)

\* the callbacks the loop calls: in order, up to and including the first that raises
CalledCallbacks(cbs, raisers) ==
    SelectSeq(cbs, LAMBDA c : \A r \in raisers : c <= r)

\* ProcessMonitor.add_callback
monitor_add_callback ==
    /\ Len(monitor_callbacks) < MaxCallbacks
    /\ monitor_callbacks' = Append(monitor_callbacks, Len(monitor_callbacks) + 1)
    /\ last' = Call("monitor_add_callback", {}, TRUE, FALSE, FALSE)
    /\ UNCHANGED <<threadVars, coreVars, monitoring, monitor_thread, process_cache, monitor_called, schedVars>>

\* ProcessMonitor.start_monitoring
start_monitoring ==
    /\ IF ~monitoring
       THEN monitoring' = TRUE /\ monitor_thread' = "running"
       ELSE UNCHANGED <<monitoring, monitor_thread>>
    /\ last' = Call("start_monitoring", {}, TRUE, FALSE, monitoring)
    /\ UNCHANGED <<threadVars, coreVars, monitor_callbacks, process_cache, monitor_called, schedVars>>

\* ProcessMonitor.stop_monitoring: the flag is cleared and the loop thread joined
stop_monitoring ==
    /\ monitoring' = FALSE
    /\ monitor_thread' = IF monitor_thread = "running" THEN "exited" ELSE monitor_thread
    /\ last' = Call("stop_monitoring", {}, TRUE, FALSE, monitoring)
    /\ UNCHANGED <<threadVars, coreVars, monitor_callbacks, process_cache, monitor_called, schedVars>>

\* one pass of the body of ProcessMonitor._monitor_loop; raisers: the subscribers that
\* raise when called with this poll result
monitor_loop(rd, raisers) ==
    /\ monitor_thread = "running"
    /\ monitoring
    /\ process_cache' = {GetProcesses(procs, rd)[i] : i \in 1..Len(GetProcesses(procs, rd))}
    /\ monitor_called' = CalledCallbacks(monitor_callbacks, raisers)
    /\ last' = Call("monitor_loop", raisers, raisers = {}, FALSE, FALSE)
    /\ UNCHANGED <<threadVars, coreVars, monitoring, monitor_thread, monitor_callbacks, schedVars>>


(***************************************************************************)
(* OptimizationScheduler over the `schedule` timer registry                *)
(***************************************************************************)
\* None for last_run / next_run, and for schedule_info['job']
NoTime == 0 - 1

NoJob == 0

HasSchedule(sch, sid) == \E i \in 1..Len(sch) : sch[i].id = sid

ScheduleOf(sch, sid) == sch[CHOOSE i \in 1..Len(sch) : sch[i].id = sid]

PutSchedule(sch, info) ==
    IF HasSchedule(sch, info.id)
    THEN [i \in 1..Len(sch) |-> IF sch[i].id = info.id THEN info ELSE sch[i]]
    ELSE Append(sch, info)

DelSchedule(sch, sid) == SelectSeq(sch, LAMBDA info : info.id # sid)

\* what _save_schedules writes for one schedule
SavedRecord(info) == [id |-> info.id, type |-> info.type, time |-> info.time, interval |-> info.interval,
                      actions |-> info.actions, enabled |-> info.enabled, last_run |-> info.last_run,
                      next_run |-> info.next_run]

\* _save_schedules: [saved, raised].  disk = "mkdir_raises": schedule_file.parent.mkdir raises
\* (outside the try); "write_fails": open/json.dump raises, caught and logged
SaveSchedules(sch, saved, disk) ==
    CASE disk = "mkdir_raises" -> [saved |-> saved, raised |-> TRUE]
      [] disk = "write_fails" -> [saved |-> saved, raised |-> FALSE]
      [] OTHER -> [saved |-> [i \in 1..Len(sch) |-> SavedRecord(sch[i])], raised |-> FALSE]

\* schedule.cancel_job(job): the job leaves the registry, the object lives on
CancelJob(js, jid) == IF jid = NoJob THEN js ELSE [js EXCEPT ![jid].registered = FALSE]

\* schedule.every(n).minutes.do(...): Job._schedule_next_run sets next_run = now + n
NewJob(js, sid, kind, period, clock) ==
    Append(js, [jid |-> Len(js) + 1, sid |-> sid, kind |-> kind, period |-> period, at |-> NoTime,
                next_run |-> clock + period, last_run |-> NoTime, registered |-> TRUE])

\* the minutes of a day, and the time of day of a clock reading
DayLength == 3

TimeOfDay(clock) == clock % DayLength

\* a daily job that always takes today's occurrence of at_time
NextDailyToday(clock, at) == (clock - TimeOfDay(clock)) + at

\* Job._schedule_next_run of a daily job with at_time: now + 1 day moved to at_time, and
\* one day back when at_time is still ahead today (at_time > now.time())
NextDaily(clock, at) ==
    IF at > TimeOfDay(clock) THEN (clock - TimeOfDay(clock)) + at
    ELSE (clock - TimeOfDay(clock)) + DayLength + at

\* schedule.every().day.at(time).do(...)
NewDailyJob(js, sid, at, clock) ==
    Append(js, [jid |-> Len(js) + 1, sid |-> sid, kind |-> "run", period |-> DayLength, at |-> at,
                next_run |-> NextDaily(clock, at), last_run |-> NoTime, registered |-> TRUE])

\* a cancelled Job that no schedule_info refers to any more is garbage
DeadJob(jid) == [jid |-> jid, sid |-> 0, kind |-> "run", period |-> 0, at |-> NoTime, next_run |-> NoTime,
                 last_run |-> NoTime, registered |-> FALSE]

Collect(js, sch) ==
    [i \in 1..Len(js) |-> IF js[i].registered \/ \E k \in 1..Len(sch) : sch[k].job = i THEN js[i] ELSE DeadJob(i)]

RECURSIVE OptimizeEach(_, _, _, _, _, _)
\* the rest of the loop of optimize_all once optimize_process returned o
OptimizeRest(plat, o, processes, env, clock) == OptimizeEach(plat, o.procs, o.recs, processes, env, clock)

\* optimizer.optimize_process(process['pid']) for the busy processes of a list: [procs, recs]
\* (memory_percent in tenths of a percent)
OptimizeEach(plat, ps, recs, processes, env, clock) ==
    IF processes = <<>> THEN [procs |-> ps, recs |-> recs]
    ELSE IF Head(processes).cpu_percent > 5 \/ Head(processes).memory_percent > 50
         THEN OptimizeRest(plat, OptimizeProcess(plat, ps, recs, Head(processes).pid, "None", env, clock),
                           Tail(processes), env, clock)
         ELSE OptimizeEach(plat, ps, recs, Tail(processes), env, clock)

FirstN(list, n) == SubSeq(list, 1, IF Len(list) < n THEN Len(list) ELSE n)

\* _execute_action: [procs, recs]; an action that raises changes nothing: clean_memory
\* reads platform.system(), a name scheduler.py never imports
ExecuteAction(plat, ps, recs, action, rd, env, clock) ==
    CASE action = "optimize_all" -> OptimizeEach(plat, ps, recs, FirstN(GetProcesses(ps, rd), 10), env, clock)
      [] action = "clean_memory" -> [procs |-> ps, recs |-> recs]
      [] OTHER -> [procs |-> ps, recs |-> recs]

RECURSIVE ExecuteActions(_, _, _, _, _, _, _)
\* the rest of the loop over the actions once an action left the state a
ExecuteRest(plat, a, actions, rd, env, clock) == ExecuteActions(plat, a.procs, a.recs, actions, rd, env, clock)

\* _execute_action(action) raises: _clean_system_memory reads platform.system(), and
\* scheduler.py imports no platform
ActionRaises(action) == action = "clean_memory"

\* the loop went on after attempting action
Attempted(action, r) == [r EXCEPT !.attempted = <<action>> \o @]

\* a loop that the first exception leaves
ExecuteUntilRaise(plat, ps, recs, actions, rd, env, clock) ==
    IF actions = <<>> THEN [procs |-> ps, recs |-> recs, attempted |-> <<>>]
    ELSE IF ActionRaises(Head(actions)) THEN [procs |-> ps, recs |-> recs, attempted |-> <<Head(actions)>>]
    ELSE Attempted(Head(actions),
                   ExecuteRest(plat, ExecuteAction(plat, ps, recs, Head(actions), rd, env, clock), Tail(actions),
                               rd, env, clock))

\* the loop of _run_schedule over the actions, each in its own try/except:
\* [procs, recs, attempted]
ExecuteActions(plat, ps, recs, actions, rd, env, clock) ==
    IF actions = <<>> THEN [procs |-> ps, recs |-> recs, attempted |-> <<>>]
    ELSE Attempted(Head(actions),
                   ExecuteRest(plat, ExecuteAction(plat, ps, recs, Head(actions), rd, env, clock), Tail(actions),
                               rd, env, clock))

\* The part of the state a firing works on
SchedState == [schedules |-> schedules, jobs |-> jobs, saved |-> saved_schedules, procs |-> procs,
               recs |-> optimized_processes, fired |-> <<>>, attempted |-> <<>>]

Bump(n) == IF n < RunsCap THEN n + 1 ELSE n

\* _run_schedule from line 157 on, x being the state the actions left: [st, raised]
Ran(st, info, x, ncallbacks, clock, fault) ==
    LET info2 == [info EXCEPT !.last_run = clock,
                              !.next_run = IF info.job # NoJob THEN st.jobs[info.job].next_run ELSE @,
                              !.runs = Bump(@)]
        sv    == SaveSchedules(PutSchedule(st.schedules, info2), st.saved, fault)
    IN [st |-> [st EXCEPT !.schedules = PutSchedule(st.schedules, info2), !.procs = x.procs, !.recs = x.recs,
                          !.saved = sv.saved, !.fired = Append(@, info.id),
                          !.attempted = Append(@, x.attempted)],
        raised |-> sv.raised \/ (fault = "callback_raises" /\ ncallbacks > 0)]

\* _run_schedule(schedule_id): [st, raised].  fault: what goes wrong in this firing:
\* "none", "write_fails", "mkdir_raises" (see SaveSchedules) or "callback_raises"
RunSchedule(plat, st, sid, ncallbacks, rd, env, clock, fault) ==
    IF ~HasSchedule(st.schedules, sid) THEN [st |-> st, raised |-> FALSE]
    ELSE IF ~ScheduleOf(st.schedules, sid).enabled THEN [st |-> st, raised |-> FALSE]
    ELSE Ran(st, ScheduleOf(st.schedules, sid),
             ExecuteActions(plat, st.procs, st.recs, ScheduleOf(st.schedules, sid).actions, rd, env, clock),
             ncallbacks, clock, fault)

\* self.monitor.get_processes()[0]['cpu_percent'] if self.monitor.get_processes() else 0
TopCpu(processes) == IF processes # <<>> THEN processes[1].cpu_percent ELSE 0

\* _check_idle_and_run(schedule_id): [st, raised]
CheckIdleAndRun(plat, st, sid, ncallbacks, rd, env, clock, fault) ==
    IF TopCpu(GetProcesses(st.procs, rd)) < IdleThreshold
    THEN RunSchedule(plat, st, sid, ncallbacks, rd, env, clock, fault)
    ELSE [st |-> st, raised |-> FALSE]

\* the startup branch of _create_job once _run_schedule returned r
StartupJob(r) == [st |-> r.st, job |-> NoJob, next_run |-> NoTime, raised |-> r.raised]

\* _create_job(schedule_id, schedule_info): [st, job, next_run, raised]; job = NoJob: the
\* schedule_info gets no new job and keeps its next_run
CreateJob(plat, st, sid, info, ncallbacks, rd, env, clock, fault) ==
    CASE info.type = "interval" ->
            [st |-> [st EXCEPT !.jobs = NewJob(@, sid, "run", info.interval, clock)],
             job |-> Len(st.jobs) + 1, next_run |-> clock + info.interval, raised |-> FALSE]
      [] info.type = "daily" ->
            [st |-> [st EXCEPT !.jobs = NewDailyJob(@, sid, info.time, clock)],
             job |-> Len(st.jobs) + 1, next_run |-> NextDaily(clock, info.time), raised |-> FALSE]
      [] info.type = "idle" ->
            [st |-> [st EXCEPT !.jobs = NewJob(@, sid, "idle", IdlePeriod, clock)],
             job |-> Len(st.jobs) + 1, next_run |-> clock + IdlePeriod, raised |-> FALSE]
      [] info.type = "startup" -> StartupJob(RunSchedule(plat, st, sid, ncallbacks, rd, env, clock, fault))
      [] OTHER -> [st |-> st, job |-> NoJob, next_run |-> NoTime, raised |-> FALSE]

\* schedule_info['job'] = job; schedule_info['next_run'] = job.next_run (lines 135-137)
WithJob(info, c) == IF c.job # NoJob THEN [info EXCEPT !.job = c.job, !.next_run = c.next_run] ELSE info

\* what goes wrong while the user edits the job table
SchedFaults == {"none", "callback_raises"}

\* the poll results explored with the scheduler: every process busy, or every process quiet
SchedReadings == {rd \in Readings : \A pid \in Pids : rd[pid].memory_percent = 0 /\ rd[pid].cpu_percent = rd[1].cpu_percent}

SchedEnvs == {env \in Envs : env.access = "ok" /\ env.io_ok /\ env.metrics_ok /\ env.cpu = 40}

\* the schedules the user creates: type, interval (0: None) and action list
ScheduleTemplates ==
    {[type |-> "interval", time |-> NoTime, interval |-> 1, actions |-> <<"clean_memory", "optimize_all">>],
     [type |-> "startup", time |-> NoTime, interval |-> 0, actions |-> <<"optimize_all">>]}

\* the keyword arguments given to update_schedule
UpdateArgs == {<<"interval", 1>>, <<"enabled", FALSE>>}

Updated(info, kw) ==
    CASE kw[1] = "interval" -> [info EXCEPT !.interval = kw[2]]
      [] kw[1] = "enabled" -> [info EXCEPT !.enabled = kw[2]]
      [] kw[1] = "actions" -> [info EXCEPT !.actions = kw[2]]
      [] OTHER -> info

\* _create_job registers a timer for these types
MakesJob(info) == info.type \in {"interval", "idle", "daily"}

\* _create_job was not called
NotCreated == [st |-> SchedState, job |-> NoJob, next_run |-> NoTime, raised |-> FALSE]

\* the end of add_schedule, update_schedule and enable_schedule(id, True) once _create_job
\* returned c: the schedule_info is stored with its job and the table saved, unless
\* _create_job raised
Store(c, info, fault) ==
    /\ schedules' = IF c.raised THEN c.st.schedules ELSE PutSchedule(c.st.schedules, WithJob(info, c))
    /\ jobs' = Collect(c.st.jobs, IF c.raised THEN c.st.schedules ELSE PutSchedule(c.st.schedules, WithJob(info, c)))
    /\ saved_schedules' = IF c.raised THEN c.st.saved
                          ELSE SaveSchedules(PutSchedule(c.st.schedules, WithJob(info, c)), c.st.saved, fault).saved
    /\ procs' = c.st.procs
    /\ optimized_processes' = c.st.recs
    /\ fired' = c.st.fired
    /\ attempted' = c.st.attempted

\* the same for a schedule_info that is in the table already
Restore(c, sid, fault) == Store(c, ScheduleOf(c.st.schedules, sid), fault)

\* the end of update_schedule and enable_schedule when no job is created
SaveOnly(sch2, js2, fault) ==
    /\ jobs' = Collect(js2, sch2)
    /\ schedules' = sch2
    /\ saved_schedules' = SaveSchedules(sch2, saved_schedules, fault).saved
    /\ fired' = <<>> /\ attempted' = <<>>
    /\ UNCHANGED <<procs, optimized_processes>>

\* OptimizationScheduler.add_schedule
add_schedule(tpl, enabled, rd, env, fault) ==
    /\ next_id < MaxSchedules
    /\ (enabled /\ MakesJob(tpl)) => Len(jobs) < MaxJobs
    /\ LET info == [id |-> next_id + 1, type |-> tpl.type, time |-> tpl.time, interval |-> tpl.interval,
                    actions |-> tpl.actions, enabled |-> enabled, last_run |-> NoTime, next_run |-> NoTime,
                    job |-> NoJob, runs |-> 0]
       IN IF enabled
          THEN Store(CreateJob(platform, SchedState, info.id, info, Len(scheduler_callbacks), rd, env, now, fault),
                     info, fault)
          ELSE Store(NotCreated, info, fault)
    /\ next_id' = next_id + 1
    /\ UNCHANGED <<threadVars, platform, sys, gaming_processes, game_mode_active, original_settings, now, monVars,
                   running, scheduler_thread, scheduler_callbacks, last>>

\* OptimizationScheduler.remove_schedule
remove_schedule(sid, fault) ==
    IF ~HasSchedule(schedules, sid)
    THEN /\ fired' = <<>> /\ attempted' = <<>>
         /\ UNCHANGED <<threadVars, coreVars, monVars, schedules, jobs, saved_schedules, running, scheduler_thread,
                        scheduler_callbacks, next_id, last>>
    ELSE /\ jobs' = Collect(CancelJob(jobs, ScheduleOf(schedules, sid).job), DelSchedule(schedules, sid))
         /\ schedules' = DelSchedule(schedules, sid)
         /\ saved_schedules' = SaveSchedules(DelSchedule(schedules, sid), saved_schedules, fault).saved
         /\ fired' = <<>> /\ attempted' = <<>>
         /\ UNCHANGED <<threadVars, coreVars, monVars, running, scheduler_thread, scheduler_callbacks, next_id, last>>

\* OptimizationScheduler.update_schedule(schedule_id, **kwargs), one keyword at a time
update_schedule(sid, kw, rd, env, fault) ==
    IF ~HasSchedule(schedules, sid)
    THEN /\ fired' = <<>> /\ attempted' = <<>>
         /\ UNCHANGED <<threadVars, coreVars, monVars, schedules, jobs, saved_schedules, running, scheduler_thread,
                        scheduler_callbacks, next_id, last>>
    ELSE LET info == Updated(ScheduleOf(schedules, sid), kw)
             js1  == CancelJob(jobs, info.job)
             sch1 == PutSchedule(schedules, info)
         IN /\ (info.enabled /\ MakesJob(info)) => Len(jobs) < MaxJobs
            /\ IF info.enabled
               THEN Restore(CreateJob(platform, [SchedState EXCEPT !.schedules = sch1, !.jobs = js1], sid, info,
                                      Len(scheduler_callbacks), rd, env, now, fault),
                            sid, fault)
               ELSE SaveOnly(sch1, js1, fault)
            /\ UNCHANGED <<threadVars, platform, sys, gaming_processes, game_mode_active, original_settings, now, monVars,
                           running, scheduler_thread, scheduler_callbacks, next_id, last>>

\* OptimizationScheduler.enable_schedule(schedule_id, enabled)
enable_schedule(sid, enabled, rd, env, fault) ==
    IF ~HasSchedule(schedules, sid)
    THEN /\ fired' = <<>> /\ attempted' = <<>>
         /\ UNCHANGED <<threadVars, coreVars, monVars, schedules, jobs, saved_schedules, running, scheduler_thread,
                        scheduler_callbacks, next_id, last>>
    ELSE LET info == [ScheduleOf(schedules, sid) EXCEPT !.enabled = enabled]
         IN /\ (enabled /\ MakesJob(info)) => Len(jobs) < MaxJobs
            /\ IF enabled
               THEN Restore(CreateJob(platform, [SchedState EXCEPT !.schedules = PutSchedule(schedules, info)], sid,
                                      info, Len(scheduler_callbacks), rd, env, now, fault),
                            sid, fault)
               ELSE SaveOnly(PutSchedule(schedules, [info EXCEPT !.job = NoJob]), CancelJob(jobs, info.job), fault)
            /\ UNCHANGED <<threadVars, platform, sys, gaming_processes, game_mode_active, original_settings, now, monVars,
                           running, scheduler_thread, scheduler_callbacks, next_id, last>>

\* OptimizationScheduler.add_callback
scheduler_add_callback ==
    /\ Len(scheduler_callbacks) < MaxSchedCallbacks
    /\ scheduler_callbacks' = Append(scheduler_callbacks, Len(scheduler_callbacks) + 1)
    /\ fired' = <<>> /\ attempted' = <<>>
    /\ UNCHANGED <<threadVars, coreVars, monVars, schedules, jobs, saved_schedules, running, scheduler_thread, next_id, last>>

\* OptimizationScheduler.start
start ==
    /\ IF ~running
       THEN running' = TRUE /\ scheduler_thread' = "running"
       ELSE UNCHANGED <<running, scheduler_thread>>
    /\ fired' = <<>> /\ attempted' = <<>>
    /\ UNCHANGED <<threadVars, coreVars, monVars, schedules, jobs, saved_schedules, scheduler_callbacks, next_id, last>>

\* OptimizationScheduler.stop: the flag is cleared and the loop thread joined
stop ==
    /\ running' = FALSE
    /\ scheduler_thread' = IF scheduler_thread = "running" THEN "exited" ELSE scheduler_thread
    /\ fired' = <<>> /\ attempted' = <<>>
    /\ UNCHANGED <<threadVars, coreVars, monVars, schedules, jobs, saved_schedules, scheduler_callbacks, next_id, last>>

\* Job.should_run: the job is in the registry and now >= next_run
ShouldRun(job, clock) == job.registered /\ clock >= job.next_run

RECURSIVE InsertByNextRun(_, _)
\* sorted(runnable_jobs): Job.__lt__ compares next_run, and the sort is stable
InsertByNextRun(sorted, job) ==
    IF sorted = <<>> THEN <<job>>
    ELSE IF Head(sorted).next_run <= job.next_run
         THEN <<Head(sorted)>> \o InsertByNextRun(Tail(sorted), job)
         ELSE <<job>> \o sorted

RECURSIVE SortByNextRun(_)
SortByNextRun(list) == IF list = <<>> THEN <<>> ELSE InsertByNextRun(SortByNextRun(SubSeq(list, 1, Len(list) - 1)), list[Len(list)])

\* the job ids run_pending runs, in the order it runs them
Runnable(js, clock) ==
    LET sorted == SortByNextRun(SelectSeq(js, LAMBDA job : ShouldRun(job, clock)))
    IN [i \in 1..Len(sorted) |-> sorted[i].jid]

RECURSIVE RunPending(_, _, _, _, _, _, _, _, _)
\* Job.run once the job function returned r: last_run and next_run of the Job are set and
\* run_pending goes on, unless the job function raised
JobRan(plat, r, job, jids, k, ncallbacks, rd, env, clock, flt) ==
    IF r.raised THEN [st |-> r.st, raised |-> TRUE]
    ELSE RunPending(plat, [r.st EXCEPT !.jobs[job.jid].last_run = clock,
                                       !.jobs[job.jid].next_run = IF job.at # NoTime THEN NextDaily(clock, job.at)
                                                                  ELSE clock + job.period],
                    jids, k + 1, ncallbacks, rd, env, clock, flt)

\* the fault the k-th job run by run_pending meets
FaultAt(flt, k) == IF k = flt.at THEN flt.kind ELSE "none"

\* schedule.run_pending() over the runnable jobs jids: [st, raised]
RunPending(plat, st, jids, k, ncallbacks, rd, env, clock, flt) ==
    IF jids = <<>> THEN [st |-> st, raised |-> FALSE]
    ELSE IF st.jobs[Head(jids)].kind = "idle"
         THEN JobRan(plat, CheckIdleAndRun(plat, st, st.jobs[Head(jids)].sid, ncallbacks, rd, env, clock, FaultAt(flt, k)),
                     st.jobs[Head(jids)], Tail(jids), k, ncallbacks, rd, env, clock, flt)
         ELSE JobRan(plat, RunSchedule(plat, st, st.jobs[Head(jids)].sid, ncallbacks, rd, env, clock, FaultAt(flt, k)),
                     st.jobs[Head(jids)], Tail(jids), k, ncallbacks, rd, env, clock, flt)

\* the schedules run_pending is due to fire: an enabled schedule with a runnable job
\* (and, for an idle check, a quiet system)
DueSchedules(ps, sch, js, rd, clock) ==
    {js[i].sid : i \in {j \in 1..Len(js) :
        /\ ShouldRun(js[j], clock)
        /\ HasSchedule(sch, js[j].sid)
        /\ ScheduleOf(sch, js[j].sid).enabled
        /\ js[j].kind = "idle" => TopCpu(GetProcesses(ps, rd)) < IdleThreshold}}

\* the state run_pending leaves; an exception ends the loop thread
Looped(r) ==
    /\ schedules' = r.st.schedules
    /\ jobs' = Collect(r.st.jobs, r.st.schedules)
    /\ saved_schedules' = r.st.saved
    /\ procs' = r.st.procs
    /\ optimized_processes' = r.st.recs
    /\ fired' = r.st.fired
    /\ attempted' = r.st.attempted
    /\ scheduler_thread' = IF r.raised THEN "crashed" ELSE "running"

\* one pass of the body of OptimizationScheduler._scheduler_loop
scheduler_loop(rd, env, flt) ==
    /\ scheduler_thread = "running"
    /\ running
    /\ flt.at <= Len(Runnable(jobs, now))
    /\ Looped(RunPending(platform, SchedState, Runnable(jobs, now), 1, Len(scheduler_callbacks), rd, env, now, flt))
    /\ UNCHANGED <<threadVars, platform, sys, gaming_processes, game_mode_active, original_settings, now, monVars,
                   running, scheduler_callbacks, next_id, last>>

(***************************************************************************)
(* SchedSpec: the job table, the timer registry and the scheduler loop     *)
(***************************************************************************)
\* what goes wrong in one pass of the loop: nothing, or the job run at position at fails
LoopFaults == {[at |-> 0, kind |-> "none"]} \cup [at : 1..MaxJobs, kind : {"mkdir_raises", "write_fails", "callback_raises"}]

SchedNext ==
    \/ \E tpl \in ScheduleTemplates, enabled \in BOOLEAN, rd \in SchedReadings, env \in SchedEnvs, fault \in SchedFaults :
          add_schedule(tpl, enabled, rd, env, fault)
    \/ \E sid \in 1..MaxSchedules, kw \in UpdateArgs, rd \in SchedReadings, env \in SchedEnvs, fault \in SchedFaults :
          update_schedule(sid, kw, rd, env, fault)
    \/ \E sid \in 1..MaxSchedules, enabled \in BOOLEAN, rd \in SchedReadings, env \in SchedEnvs, fault \in SchedFaults :
          enable_schedule(sid, enabled, rd, env, fault)
    \/ \E sid \in 1..MaxSchedules, fault \in SchedFaults : remove_schedule(sid, fault)
    \/ scheduler_add_callback
    \/ start
    \/ stop
    \/ \E rd \in SchedReadings, env \in SchedEnvs, flt \in LoopFaults : scheduler_loop(rd, env, flt)
    \/ Tick

\* a host with one of the processes running
SchedInit ==
    /\ Init
    /\ platform = "Linux"
    /\ procs[1].alive
    /\ \A pid \in Pids \ {1} : ~procs[pid].alive

SchedSpec == SchedInit /\ [][SchedNext]_vars

(***************************************************************************)
(* TimerSpec: daily, interval and idle schedules while the clock runs on   *)
(***************************************************************************)
\* how far the clock runs
MaxLate == 6

\* the schedules created here: one of each timed type, the daily one at minute 1 of the day
TimerTemplates ==
    {[type |-> "interval", time |-> NoTime, interval |-> 1, actions |-> <<"optimize_all">>],
     [type |-> "idle", time |-> NoTime, interval |-> 0, actions |-> <<"optimize_all">>],
     [type |-> "daily", time |-> 1, interval |-> 0, actions |-> <<"optimize_all">>]}

\* a pass of the loop in which no job fails
TimerFaults == {[at |-> 0, kind |-> "none"]}

\* time passes, whether or not the loop thread runs
Elapse ==
    /\ now < MaxLate
    /\ now' = now + 1
    /\ last' = Call("tick", {}, TRUE, FALSE, FALSE)
    /\ UNCHANGED <<platform, procs, sys, optimized_processes, gaming_processes, game_mode_active, original_settings, otherVars>>

TimerNext ==
    \/ \E tpl \in TimerTemplates, enabled \in BOOLEAN, rd \in SchedReadings, env \in SchedEnvs :
          add_schedule(tpl, enabled, rd, env, "none")
    \/ \E sid \in 1..MaxSchedules, enabled \in BOOLEAN, rd \in SchedReadings, env \in SchedEnvs :
          enable_schedule(sid, enabled, rd, env, "none")
    \/ start
    \/ \E rd \in SchedReadings, env \in SchedEnvs, flt \in TimerFaults : scheduler_loop(rd, env, flt)
    \/ Elapse

TimerSpec == SchedInit /\ [][TimerNext]_vars

(***************************************************************************)
(* PollSpec: get_processes and get_optimization_stats over tables longer   *)
(* than their limits                                                       *)
(***************************************************************************)
\* how many processes a table has beyond max_processes
MaxExtra == 2

TableSizes == {1, TopProcesses, TopProcesses + 1} \cup (MaxProcesses..(MaxProcesses + MaxExtra))

\* a process table in process_iter order: n processes at 40% CPU, but for the one at
\* position h, which shows cpu and uses no measurable memory
HostTable(n, h, cpu) ==
    [i \in 1..n |-> [pid |-> i, name |-> NameOf(i), cpu_percent |-> IF i = h THEN cpu ELSE 40, memory_percent |-> 0]]

HostTables == {HostTable(n, h, cpu) : n \in TableSizes, h \in 1..(MaxProcesses + MaxExtra), cpu \in CpuLevels}

RECURSIVE CollectTable(_, _)
\* the loop of get_processes over the process table, stopping at max_processes entries
CollectTable(table, acc) ==
    IF table = <<>> \/ Len(acc) >= MaxProcesses THEN acc
    ELSE IF ~Negligible(Head(table)) THEN CollectTable(Tail(table), Append(acc, Head(table)))
    ELSE CollectTable(Tail(table), acc)

\* get_processes() on a process table: collect, sort by CPU, cut
PollTable(table) == FirstN(SortByCpu(CollectTable(table, <<>>)), TopProcesses)

\* how many records the tables of get_optimization_stats have at most
MaxRecords == 6

\* the length of top_processes
StatsTop == 5

BoostLevels == {0, 10, 25}

\* optimized_processes with n records, in insertion order, whose stored boosts are b
StatTable(n, b) == [i \in 1..n |-> [pid |-> i, name |-> NameOf(i), boost_percentage |-> b[i]]]

StatTables == UNION {{StatTable(n, b) : b \in [1..n -> BoostLevels]} : n \in 0..MaxRecords}

RECURSIVE SumBoost(_)
\* sum(p.get('boost_percentage', 0) for p in self.optimized_processes.values())
SumBoost(recs) == IF recs = <<>> THEN 0 ELSE Head(recs).boost_percentage + SumBoost(Tail(recs))

RECURSIVE InsertByBoostFront(_, _)
\* an insertion that puts an entry in front of its equals
InsertByBoostFront(sorted, entry) ==
    IF sorted = <<>> THEN <<entry>>
    ELSE IF Head(sorted).boost > entry.boost
         THEN <<Head(sorted)>> \o InsertByBoostFront(Tail(sorted), entry)
         ELSE <<entry>> \o sorted

RECURSIVE InsertByBoost(_, _)
\* sorted(..., key=lambda x: x[2], reverse=True) is stable: an entry goes behind its equals
InsertByBoost(sorted, entry) ==
    IF sorted = <<>> THEN <<entry>>
    ELSE IF Head(sorted).boost >= entry.boost
         THEN <<Head(sorted)>> \o InsertByBoost(Tail(sorted), entry)
         ELSE <<entry>> \o sorted

RECURSIVE SortByBoost(_)
SortByBoost(list) == IF list = <<>> THEN <<>> ELSE InsertByBoost(SortByBoost(SubSeq(list, 1, Len(list) - 1)), list[Len(list)])

\* the (pid, name, boost) tuples of the records, in the order of the dict
BoostTuples(recs) == [i \in 1..Len(recs) |-> [pid |-> recs[i].pid, name |-> recs[i].name, boost |-> recs[i].boost_percentage]]

\* total_boost / total_processes is a true division: the quotient is kept as a fraction
Average(total, n) == IF n > 0 THEN [num |-> total, den |-> n] ELSE [num |-> 0, den |-> 1]

\* get_optimization_stats(): the dict returned
GetOptimizationStats(recs) ==
    [total_optimized |-> Len(recs),
     average_boost |-> Average(SumBoost(recs), Len(recs)),
     total_boost |-> SumBoost(recs),
     top_processes |-> FirstN(SortByBoost(BoostTuples(recs)), StatsTop)]

PollInputs ==
    [fn : {"get_processes"}, table : HostTables, out : {Pending}]
    \cup [fn : {"get_optimization_stats"}, recs : StatTables, pc : {"call"}, out : {Pending}]

PollInit ==
    /\ platform = "Linux"
    /\ sys = [power_plan |-> "balanced", powercfg |-> "works", game_bar |-> "on", gpu_mode |-> "default", net_tuning |-> "default", timer |-> "default"]
    /\ InitCommon
    /\ \A pid \in Pids : procs[pid].alive
    /\ probe \in PollInputs

\* ProcessMonitor.get_processes
get_processes ==
    /\ probe.fn = "get_processes" /\ probe.out = Pending
    /\ probe' = [probe EXCEPT !.out = PollTable(probe.table)]
    /\ UNCHANGED <<coreVars, monVars, schedVars, threads, last>>

\* SystemOptimizer.get_optimization_stats over the records the table holds
get_optimization_stats ==
    /\ probe.fn = "get_optimization_stats" /\ probe.pc = "call"
    /\ probe' = [probe EXCEPT !.pc = "return", !.out = GetOptimizationStats(probe.recs)]
    /\ UNCHANGED <<coreVars, monVars, schedVars, threads, last>>

PollNext ==
    \/ get_processes
    \/ get_optimization_stats

PollSpec == PollInit /\ [][PollNext]_vars

(***************************************************************************)
(* SessionSpec: enable_game_mode and disable_game_mode called by threads,  *)
(* one step of a call at a time                                            *)
(***************************************************************************)
\* the lists handed to enable_game_mode here: no game, or the game running as pid 1
SessionGames == {games \in DetectedLists : PidsOf(games) \subseteq {1}}

sessionFrame == <<platform, now, monVars, schedVars, probe, last>>

\* enable_game_mode, lines 132-133: if self.game_mode_active: return
en_check(t, games) ==
    /\ ~Running(t)
    /\ threads' = [threads EXCEPT ![t] =
           IF game_mode_active THEN Returned("enable_game_mode", 0, TRUE, FALSE, 0)
           ELSE [op |-> "enable_game_mode", pid |-> 0, pc |-> "store", games |-> games]]
    /\ UNCHANGED <<procs, sys, optimized_processes, gaming_processes, game_mode_active, original_settings, sessionFrame>>

\* line 138: self._store_original_settings()
en_store(t) ==
    /\ threads[t].pc = "store"
    /\ original_settings' = StoreOriginalSettings(sys)
    /\ threads' = [threads EXCEPT ![t].pc = "apply"]
    /\ UNCHANGED <<procs, sys, optimized_processes, gaming_processes, game_mode_active, sessionFrame>>

\* lines 141-149: the loop over the games and _apply_system_game_mode; an exception of
\* the loop leaves enable_game_mode
en_apply(t, env) ==
    /\ threads[t].pc = "apply"
    /\ LET l == EnableLoop(platform, procs, optimized_processes, sys, threads[t].games, env, now)
       IN /\ procs' = l.procs
          /\ optimized_processes' = l.recs
          /\ sys' = IF l.raised THEN l.sys ELSE ApplySystemGameMode(l.sys)
          /\ threads' = [threads EXCEPT ![t] =
                 IF l.raised THEN Returned("enable_game_mode", 0, FALSE, TRUE, 0)
                 ELSE [@ EXCEPT !.pc = "activate"]]
    /\ UNCHANGED <<gaming_processes, game_mode_active, original_settings, sessionFrame>>

\* line 151: self.game_mode_active = True
en_activate(t) ==
    /\ threads[t].pc = "activate"
    /\ game_mode_active' = TRUE
    /\ threads' = [threads EXCEPT ![t] = Returned("enable_game_mode", 0, TRUE, FALSE, 0)]
    /\ UNCHANGED <<procs, sys, optimized_processes, gaming_processes, original_settings, sessionFrame>>

\* disable_game_mode, lines 155-156: if not self.game_mode_active: return
dis_check(t) ==
    /\ ~Running(t)
    /\ threads' = [threads EXCEPT ![t] =
           IF ~game_mode_active THEN Returned("disable_game_mode", 0, TRUE, FALSE, 0)
           ELSE [op |-> "disable_game_mode", pid |-> 0, pc |-> "remove"]]
    /\ UNCHANGED <<procs, sys, optimized_processes, gaming_processes, game_mode_active, original_settings, sessionFrame>>

\* lines 161-165: remove the optimizations of the tracked pids
dis_remove(t, env) ==
    /\ threads[t].pc = "remove"
    /\ procs' = RemoveAll(platform, procs, optimized_processes, gaming_processes, env).procs
    /\ optimized_processes' = RemoveAll(platform, procs, optimized_processes, gaming_processes, env).recs
    /\ threads' = [threads EXCEPT ![t].pc = "restore"]
    /\ UNCHANGED <<sys, gaming_processes, game_mode_active, original_settings, sessionFrame>>

\* line 168: self._restore_original_settings()
dis_restore(t) ==
    /\ threads[t].pc = "restore"
    /\ sys' = RestoreOriginalSettings(sys, original_settings)
    /\ threads' = [threads EXCEPT ![t].pc = "clear"]
    /\ UNCHANGED <<procs, optimized_processes, gaming_processes, game_mode_active, original_settings, sessionFrame>>

\* lines 170-171: self.gaming_processes.clear(); self.game_mode_active = False
dis_clear(t) ==
    /\ threads[t].pc = "clear"
    /\ gaming_processes' = {}
    /\ game_mode_active' = FALSE
    /\ threads' = [threads EXCEPT ![t] = Returned("disable_game_mode", 0, TRUE, FALSE, 0)]
    /\ UNCHANGED <<procs, sys, optimized_processes, original_settings, sessionFrame>>

SessionNext ==
    \/ \E t \in Tids, games \in SessionGames : en_check(t, games)
    \/ \E t \in Tids : en_store(t)
    \/ \E t \in Tids, env \in ConcEnvs : en_apply(t, env)
    \/ \E t \in Tids : en_activate(t)
    \/ \E t \in Tids : dis_check(t)
    \/ \E t \in Tids, env \in ConcEnvs : dis_remove(t, env)
    \/ \E t \in Tids : dis_restore(t)
    \/ \E t \in Tids : dis_clear(t)

\* a Windows host on the balanced power plan, one process running
SessionInit ==
    /\ GameInit
    /\ sys.power_plan = "balanced" /\ sys.powercfg = "works"
    /\ procs[1].alive
    /\ \A pid \in Pids \ {1} : ~procs[pid].alive

SessionSpec == SessionInit /\ [][SessionNext]_vars

(***************************************************************************)
(* EditSpec: a firing run by the loop thread, one step per access to the   *)
(* job table, while the interface thread edits the table.  The scheduler   *)
(* takes no lock.                                                          *)
(***************************************************************************)
\* the schedules created here
EditTemplates == {[type |-> "interval", time |-> NoTime, interval |-> 1, actions |-> <<"optimize_all">>]}

\* what a step of a firing leaves alone
firingFrame == <<platform, sys, gaming_processes, game_mode_active, original_settings, now, monVars, running,
                 scheduler_callbacks, next_id, probe, last>>

\* Job.run after the job function returned: last_run and next_run of the Job object
JobDone(js, jid, clock) ==
    IF js[jid].registered
    THEN [js EXCEPT ![jid].last_run = clock, ![jid].next_run = clock + js[jid].period]
    ELSE js

\* the loop thread leaves _run_schedule: by return, or by an exception that nothing
\* between _run_schedule and the top of the thread catches
Leaves(t, sid, ok, raised) ==
    /\ threads' = [threads EXCEPT ![t] = Returned("_run_schedule", sid, ok, raised, 0)]
    /\ scheduler_thread' = IF raised THEN "crashed" ELSE scheduler_thread

\* run_pending takes the next runnable job and calls _run_schedule: line 141
run_check(t) ==
    /\ scheduler_thread = "running"
    /\ running
    /\ ~Running(t)
    /\ Runnable(jobs, now) # <<>>
    /\ LET jid == Head(Runnable(jobs, now))
       IN IF HasSchedule(schedules, jobs[jid].sid)
          THEN /\ threads' = [threads EXCEPT ![t] = [op |-> "_run_schedule", pid |-> jobs[jid].sid, pc |-> "get",
                                                     jid |-> jid, size |-> 0]]
               /\ UNCHANGED <<jobs, scheduler_thread>>
          ELSE /\ Leaves(t, jobs[jid].sid, FALSE, FALSE)
               /\ jobs' = JobDone(jobs, jid, now)
    /\ fired' = <<>> /\ attempted' = <<>>
    /\ UNCHANGED <<schedules, saved_schedules, procs, optimized_processes, firingFrame>>

\* lines 157-160 once the actions left x
Fired(t, info, x) ==
    /\ schedules' = PutSchedule(schedules, [info EXCEPT !.last_run = now,
                                                        !.next_run = IF info.job # NoJob THEN jobs[info.job].next_run ELSE @,
                                                        !.runs = Bump(@)])
    /\ procs' = x.procs
    /\ optimized_processes' = x.recs
    /\ fired' = <<info.id>>
    /\ attempted' = <<x.attempted>>
    /\ threads' = [threads EXCEPT ![t].pc = "iter"]
    /\ UNCHANGED <<jobs, scheduler_thread>>

\* _run_schedule lines 144-160: self.schedules[schedule_id] raises KeyError when the
\* schedule left the table since line 141
run_get(t, rd, env) ==
    /\ threads[t].op = "_run_schedule"
    /\ threads[t].pc = "get"
    /\ IF ~HasSchedule(schedules, threads[t].pid)
       THEN /\ Leaves(t, threads[t].pid, FALSE, TRUE)
            /\ fired' = <<>> /\ attempted' = <<>>
            /\ UNCHANGED <<schedules, jobs, procs, optimized_processes>>
       ELSE IF ~ScheduleOf(schedules, threads[t].pid).enabled
            THEN /\ Leaves(t, threads[t].pid, FALSE, FALSE)
                 /\ jobs' = JobDone(jobs, threads[t].jid, now)
                 /\ fired' = <<>> /\ attempted' = <<>>
                 /\ UNCHANGED <<schedules, procs, optimized_processes>>
            ELSE Fired(t, ScheduleOf(schedules, threads[t].pid),
                       ExecuteActions(platform, procs, optimized_processes,
                                      ScheduleOf(schedules, threads[t].pid).actions, rd, env, now))
    /\ UNCHANGED <<saved_schedules, firingFrame>>

\* _save_schedules line 55: the iteration over self.schedules.items() begins
run_iter(t) ==
    /\ threads[t].op = "_run_schedule"
    /\ threads[t].pc = "iter"
    /\ threads' = [threads EXCEPT ![t].pc = "save", ![t].size = Len(schedules)]
    /\ fired' = <<>> /\ attempted' = <<>>
    /\ UNCHANGED <<schedules, jobs, saved_schedules, procs, optimized_processes, scheduler_thread, firingFrame>>

\* _save_schedules lines 55-72 and _run_schedule lines 165-166: the dict iterator raises
\* RuntimeError when the table changed size since the iteration began
run_save(t) ==
    /\ threads[t].op = "_run_schedule"
    /\ threads[t].pc = "save"
    /\ IF Len(schedules) # threads[t].size
       THEN /\ Leaves(t, threads[t].pid, FALSE, TRUE)
            /\ UNCHANGED <<jobs, saved_schedules>>
       ELSE /\ Leaves(t, threads[t].pid, TRUE, FALSE)
            /\ jobs' = JobDone(jobs, threads[t].jid, now)
            /\ saved_schedules' = SaveSchedules(schedules, saved_schedules, "none").saved
    /\ fired' = <<>> /\ attempted' = <<>>
    /\ UNCHANGED <<schedules, procs, optimized_processes, firingFrame>>

EditNext ==
    \/ \E tpl \in EditTemplates, enabled \in BOOLEAN, rd \in SchedReadings, env \in SchedEnvs :
          add_schedule(tpl, enabled, rd, env, "none")
    \/ \E sid \in 1..MaxSchedules, enabled \in BOOLEAN, rd \in SchedReadings, env \in SchedEnvs :
          enable_schedule(sid, enabled, rd, env, "none")
    \/ \E sid \in 1..MaxSchedules : remove_schedule(sid, "none")
    \/ start
    \/ \E t \in Tids : t = 1 /\ run_check(t)
    \/ \E t \in Tids, rd \in SchedReadings, env \in SchedEnvs : run_get(t, rd, env)
    \/ \E t \in Tids : run_iter(t)
    \/ \E t \in Tids : run_save(t)
    \/ Tick

EditSpec == SchedInit /\ [][EditNext]_vars

(***************************************************************************)
(* PairSpec: the policy engine with boost recomputation over two running   *)
(* processes, so that a recomputation has records of other pids beside it  *)
(***************************************************************************)
PairInit ==
    /\ Init
    /\ \A pid \in Pids : procs[pid].alive

\* the OS answers explored here: the process is open, or closed to every read
PairEnvs == {env \in OptEnvs : env.access # "denied"}

PairNext ==
    \/ \E pid \in Pids, pn \in {"None", "game"}, env \in PairEnvs : optimize_process(pid, pn, env)
    \/ \E pid \in Pids, env \in PairEnvs : calculate_boost(pid, env)
    \/ \E pid \in Pids, env \in PairEnvs : remove_optimization(pid, env)

PairSpec == PairInit /\ [][PairNext]_vars

(***************************************************************************)
(* StatsSpec: get_optimization_stats read by the interface thread, one     *)
(* step per pass over the record table, while other threads run the steps  *)
(* of optimize_process, remove_optimization and calculate_boost            *)
(***************************************************************************)
\* line 432: total_processes = len(self.optimized_processes)
stats_len(t) ==
    /\ ~Running(t)
    /\ threads' = [threads EXCEPT ![t] = [op |-> "get_optimization_stats", pid |-> 0, pc |-> "sum",
                                          n |-> Len(optimized_processes), size |-> 0, total |-> 0]]
    /\ UNCHANGED <<procs, optimized_processes, concFrame>>

\* line 433: the generator over self.optimized_processes.values() is started
stats_sum(t) ==
    /\ threads[t].pc = "sum"
    /\ threads' = [threads EXCEPT ![t].pc = "items", ![t].size = Len(optimized_processes)]
    /\ UNCHANGED <<procs, optimized_processes, concFrame>>

\* lines 433-441: the sum is finished and the list over self.optimized_processes.items()
\* is started; a dict iterator raises RuntimeError when the dict changed size under it
stats_items(t) ==
    /\ threads[t].pc = "items"
    /\ threads' = [threads EXCEPT ![t] =
           IF Len(optimized_processes) # threads[t].size
           THEN Returned("get_optimization_stats", 0, FALSE, TRUE, 0)
           ELSE [threads[t] EXCEPT !.pc = "sort", !.total = SumBoost(optimized_processes),
                                   !.size = Len(optimized_processes)]]
    /\ UNCHANGED <<procs, optimized_processes, concFrame>>

\* lines 435-445: the list is finished, sorted and cut, and the dict returned
stats_return(t) ==
    /\ threads[t].pc = "sort"
    /\ threads' = [threads EXCEPT ![t] =
           IF Len(optimized_processes) # threads[t].size
           THEN Returned("get_optimization_stats", 0, FALSE, TRUE, 0)
           ELSE Returned("get_optimization_stats", 0, TRUE, FALSE,
                         [total_optimized |-> threads[t].n,
                          average_boost |-> Average(threads[t].total, threads[t].n),
                          total_boost |-> threads[t].total,
                          top_processes |-> FirstN(SortByBoost(BoostTuples(optimized_processes)), StatsTop)])]
    /\ UNCHANGED <<procs, optimized_processes, concFrame>>

StatsNext ==
    \/ ConcNext
    \/ \E t \in Tids : stats_len(t)
    \/ \E t \in Tids : stats_sum(t)
    \/ \E t \in Tids : stats_items(t)
    \/ \E t \in Tids : stats_return(t)

StatsSpec == ConcInit /\ [][StatsNext]_vars

(***************************************************************************)
(* SnapSpec: optimize_process step by step on a process whose CPU reading  *)
(* changes while the call runs                                             *)
(***************************************************************************)
\* the OS answers explored here: the process is open, the CPU reading is any level
SnapEnvs == {env \in Envs : env.access = "ok" /\ env.io_ok /\ env.metrics_ok}

\* optimize_process, lines 119-137, for a running process.  cpu0 is not program state:
\* it is what _get_process_metrics would read if it were called here, before line 139
snap_resolve(t, pid, profile_name, env) ==
    /\ ~Running(t)
    /\ procs[pid].alive
    /\ threads' = [threads EXCEPT ![t] =
           [op |-> "optimize_process", pid |-> pid, pc |-> "priority",
            key |-> SelectProfile(profile_name, Lower(NameOf(pid))), applied |-> <<>>,
            cpu0 |-> GetProcessMetrics(procs[pid], env).cpu_percent]]
    /\ UNCHANGED <<procs, optimized_processes, concFrame>>

SnapNext ==
    \/ \E t \in Tids, pid \in Pids, pn \in ProfileNames, env \in SnapEnvs : snap_resolve(t, pid, pn, env)
    \/ \E t \in Tids, env \in SnapEnvs : opt_priority(t, env)
    \/ \E t \in Tids, env \in SnapEnvs : opt_affinity(t, env)
    \/ \E t \in Tids, env \in SnapEnvs : opt_rest(t, env)
    \/ \E t \in Tids, env \in SnapEnvs : opt_store(t, env)
    \/ \E t \in Tids : opt_log(t)

SnapSpec == ConcInit /\ [][SnapNext]_vars

(***************************************************************************)
(* ScopeSpec: a game session whose enable calls are given the first        *)
(* process only, beside a process that is optimized by hand and that the   *)
(* classifier passes may see                                               *)
(***************************************************************************)
\* the pids no enable_game_mode call of this specification is given
Outsiders == Pids \ UNION {PidsOf(games) : games \in SessionGames}

ScopeInit ==
    /\ GameInit
    /\ sys.power_plan = "balanced" /\ sys.powercfg = "works"
    /\ \A pid \in Pids : procs[pid].alive

ScopeNext ==
    \/ \E sq \in Snapshots, gpu \in GpuReadings : detect_games(sq, gpu)
    \/ \E games \in SessionGames, env \in GameEnvs : enable_game_mode(games, env)
    \/ \E env \in GameEnvs : disable_game_mode(env)
    \/ \E pid \in Outsiders, pn \in ProfileNames, env \in GameEnvs : optimize_process(pid, pn, env)

ScopeSpec == ScopeInit /\ [][ScopeNext]_vars

(***************************************************************************)
(* StopSpec: the two loop threads and the thread that starts and stops     *)
(* them.  A loop thread is "running" at its while test (or asleep before   *)
(* it) and "in_pass" inside the body; stop is two steps, the flag and the  *)
(* join.  One thread, the interface thread, makes all the calls; it adds   *)
(* one subscriber and one schedule.                                        *)
(***************************************************************************)
\* a loop thread that has been started and has not ended
Alive(thread) == thread \in {"running", "in_pass"}

\* the schedule the user creates: every minute, a memory clean
StopTemplates == {[type |-> "interval", time |-> NoTime, interval |-> 1, actions |-> <<"clean_memory">>]}

\* the telemetry a pass reads: every process busy enough to be picked by optimize_all
StopReadings == {[pid \in Pids |-> [cpu_percent |-> 40, memory_percent |-> 0]]}

\* what the OS answers during a pass: every read succeeds
StopEnvs == {[access |-> "ok", io_ok |-> TRUE, metrics_ok |-> TRUE, cpu |-> 40]}

\* what goes wrong in a pass of the scheduler loop: nothing, or the first job's save raises
StopFaults == TimerFaults \cup {[at |-> 1, kind |-> "mkdir_raises"]}

\* stop_monitoring returning without waiting for the loop thread
mon_join_nowait(t) ==
    /\ threads[t].op = "stop_monitoring"
    /\ threads[t].pc = "join"
    /\ threads' = [threads EXCEPT ![t] = Returned("stop_monitoring", 0, TRUE, FALSE, 0)]
    /\ UNCHANGED <<coreVars, monVars, schedVars, probe, last>>

\* stop_monitoring, line 135: self.monitoring = False
mon_stop(t) ==
    /\ ~Running(t)
    /\ monitoring' = FALSE
    /\ threads' = [threads EXCEPT ![t] = [op |-> "stop_monitoring", pid |-> 0, pc |-> "join"]]
    /\ UNCHANGED <<coreVars, monitor_thread, monitor_callbacks, process_cache, monitor_called, schedVars, probe, last>>

\* stop_monitoring, lines 136-138: self.monitor_thread.join() returns once the thread has
\* ended; with no thread there is nothing to join
mon_join(t) ==
    /\ threads[t].op = "stop_monitoring"
    /\ threads[t].pc = "join"
    /\ ~Alive(monitor_thread)
    /\ threads' = [threads EXCEPT ![t] = Returned("stop_monitoring", 0, TRUE, FALSE, 0)]
    /\ UNCHANGED <<coreVars, monVars, schedVars, probe, last>>

\* _monitor_loop, line 142: while self.monitoring
mon_test ==
    /\ monitor_thread = "running"
    /\ monitor_thread' = IF monitoring THEN "in_pass" ELSE "exited"
    /\ UNCHANGED <<coreVars, monitoring, monitor_callbacks, process_cache, monitor_called, schedVars, threadVars, last>>

\* _monitor_loop, lines 143-157: one pass of the body, then the sleep
mon_pass(rd, raisers) ==
    /\ monitor_thread = "in_pass"
    /\ process_cache' = {GetProcesses(procs, rd)[i] : i \in 1..Len(GetProcesses(procs, rd))}
    /\ monitor_called' = CalledCallbacks(monitor_callbacks, raisers)
    /\ monitor_thread' = "running"
    /\ last' = Call("monitor_loop", raisers, raisers = {}, FALSE, FALSE)
    /\ UNCHANGED <<threadVars, coreVars, monitoring, monitor_callbacks, schedVars>>

\* stop, line 293: self.running = False
sched_stop(t) ==
    /\ ~Running(t)
    /\ running' = FALSE
    /\ threads' = [threads EXCEPT ![t] = [op |-> "stop", pid |-> 0, pc |-> "join"]]
    /\ fired' = <<>> /\ attempted' = <<>>
    /\ UNCHANGED <<coreVars, monVars, schedules, jobs, saved_schedules, scheduler_thread, scheduler_callbacks, next_id,
                   probe, last>>

\* stop, lines 294-296: self.scheduler_thread.join()
sched_join(t) ==
    /\ threads[t].op = "stop"
    /\ threads[t].pc = "join"
    /\ ~Alive(scheduler_thread)
    /\ threads' = [threads EXCEPT ![t] = Returned("stop", 0, TRUE, FALSE, 0)]
    /\ fired' = <<>> /\ attempted' = <<>>
    /\ UNCHANGED <<coreVars, monVars, schedules, jobs, saved_schedules, running, scheduler_thread, scheduler_callbacks,
                   next_id, probe, last>>

\* _scheduler_loop, line 300: while self.running
sched_test ==
    /\ scheduler_thread = "running"
    /\ scheduler_thread' = IF running THEN "in_pass" ELSE "exited"
    /\ fired' = <<>> /\ attempted' = <<>>
    /\ UNCHANGED <<coreVars, monVars, schedules, jobs, saved_schedules, running, scheduler_callbacks, next_id,
                   threadVars, last>>

\* _scheduler_loop, lines 301-302: schedule.run_pending(), then the sleep; an exception
\* ends the thread
sched_pass(rd, env, flt) ==
    /\ scheduler_thread = "in_pass"
    /\ flt.at <= Len(Runnable(jobs, now))
    /\ Looped(RunPending(platform, SchedState, Runnable(jobs, now), 1, Len(scheduler_callbacks), rd, env, now, flt))
    /\ UNCHANGED <<threadVars, platform, sys, gaming_processes, game_mode_active, original_settings, now, monVars,
                   running, scheduler_callbacks, next_id, last>>

StopNext ==
    \/ ~Running(1) /\ monitor_callbacks = <<>> /\ monitor_add_callback
    \/ ~Running(1) /\ start_monitoring
    \/ ~Running(1) /\ start
    \/ ~Running(1) /\ schedules = <<>> /\ \E tpl \in StopTemplates, rd \in StopReadings, env \in StopEnvs :
                                               add_schedule(tpl, TRUE, rd, env, "none")
    \/ \E t \in Tids : t = 1 /\ mon_stop(t)
    \/ \E t \in Tids : mon_join(t)
    \/ \E t \in Tids : t = 1 /\ sched_stop(t)
    \/ \E t \in Tids : sched_join(t)
    \/ mon_test
    \/ \E rd \in StopReadings, raisers \in SUBSET {monitor_callbacks[i] : i \in 1..Len(monitor_callbacks)} : mon_pass(rd, raisers)
    \/ sched_test
    \/ \E rd \in StopReadings, env \in StopEnvs, flt \in StopFaults : sched_pass(rd, env, flt)
    \/ Tick

StopSpec == SchedInit /\ [][StopNext]_vars

\* the loop threads and the joining thread get the processor again and again, and a
\* pass of either loop ends (a sleep of refresh_interval, or of one second, closes it)
StopFairSpec ==
    /\ StopSpec
    /\ WF_vars(mon_test)
    /\ WF_vars(\E rd \in StopReadings : mon_pass(rd, {}))
    /\ WF_vars(sched_test)
    /\ WF_vars(\E rd \in StopReadings, env \in StopEnvs : sched_pass(rd, env, [at |-> 0, kind |-> "none"]))
    /\ WF_vars(\E t \in Tids : mon_join(t))
    /\ WF_vars(\E t \in Tids : sched_join(t))

(***************************************************************************)
(* MonSpec: the telemetry loop and its subscribers                         *)
(***************************************************************************)
MonNext ==
    \/ monitor_add_callback
    \/ start_monitoring
    \/ stop_monitoring
    \/ \E rd \in Readings, raisers \in SUBSET {monitor_callbacks[i] : i \in 1..Len(monitor_callbacks)} : monitor_loop(rd, raisers)
    \/ \E pid \in Pids : ProcessExit(pid)
    \/ \E pid \in Pids : ProcessStart(pid)

MonSpec == Init /\ [][MonNext]_vars

(***************************************************************************)
(* Claims                                                                  *)
(***************************************************************************)
Populated(settings) == DOMAIN settings # {}

Cleared(settings) == DOMAIN settings = {}

\* C1: an apply for a pid that already has a record is a no-op: the record table and the
\* process's tuning are left as they were and the call returns ok.
C1_IdempotentApply ==
    [][(last'.op = "optimize_process" /\ last'.pre)
        => (optimized_processes' = optimized_processes /\ procs' = procs /\ last'.ok)]_vars

C3_SessionInvariant ==
    /\ game_mode_active => Populated(original_settings)
    /\ ~game_mode_active => Cleared(original_settings)

\* C4: enable on an inactive session with a non-empty list completes (does not raise)
\* with active = true and the game profile recorded for every listed pid whose process
\* exists, whatever the genres in the list.
C4_EnableCompletes ==
    (last.op = "enable_game_mode" /\ ~last.pre /\ last.pids # {})
        => (/\ ~last.raised
            /\ game_mode_active
            /\ \A pid \in last.pids : procs[pid].alive =>
                   (HasRecord(optimized_processes, pid) /\ RecordOf(optimized_processes, pid).profile = "game"))

\* C5: enable on an active session changes nothing (no snapshot, no profile applied, no
\* system setting changed), and while the session is active saved_system_settings
\* keeps the value captured when the session became active.
C5_EnableWhileActiveNoOp ==
    /\ [][(last'.op = "enable_game_mode" /\ game_mode_active) => UNCHANGED coreVars]_vars
    /\ [][game_mode_active => original_settings' = original_settings]_vars

\* enable called on an active session with a list naming a live process that has no
\* record: a second enable with another list than the one the session started with
C5_Witness ==
    /\ last.op = "enable_game_mode"
    /\ last.pre
    /\ game_mode_active
    /\ \E pid \in last.pids : procs[pid].alive /\ ~HasRecord(optimized_processes, pid)

\* C6: disable on an active session ends with active = false, saved_system_settings
\* cleared and the tracked game-pid set empty, whatever removals or restores failed.
C6_DisableClears ==
    (last.op = "disable_game_mode" /\ last.pre)
        => (/\ ~game_mode_active
            /\ Cleared(original_settings)
            /\ gaming_processes = {})

Range(seq) == {seq[i] : i \in 1..Len(seq)}

\* C10: in a polling cycle where some subscriber raises, every other registered
\* subscriber is still called with that poll result, in registration order, and the
\* loop stays alive for the next cycle.
C10_SubscriberIsolation ==
    last.op = "monitor_loop"
        => (/\ \A c \in Range(monitor_callbacks) : c \notin last.pids => c \in Range(monitor_called)
            /\ \A i, j \in 1..Len(monitor_called) : i < j => monitor_called[i] < monitor_called[j]
            /\ monitor_thread = "running")

\* a pass of the scheduler loop in which nothing goes wrong
NoFault == [at |-> 0, kind |-> "none"]

\* C7: after an interval job with interval N fires at time t, the next_run recorded for
\* it is t + N
C7_NextRunAfterFiring ==
    [][\A rd \in SchedReadings, env \in SchedEnvs :
          scheduler_loop(rd, env, NoFault)
              => \A i \in 1..Len(schedules') :
                    (schedules'[i].type = "interval" /\ schedules'[i].id \in Range(fired'))
                        => schedules'[i].next_run = now + schedules'[i].interval]_vars

\* C8: an enabled startup job has run its action list exactly once: it is neither
\* skipped nor fired a second time
C8_StartupRunsOnce ==
    \A i \in 1..Len(schedules) :
        (schedules[i].type = "startup" /\ schedules[i].enabled) => schedules[i].runs = 1

\* C9: whatever fails while one due job fires, every job due in that pass of the loop
\* fires and the loop thread lives on
C9_JobIsolation ==
    [][\A rd \in SchedReadings, env \in SchedEnvs, flt \in LoopFaults :
          scheduler_loop(rd, env, flt)
              => (/\ DueSchedules(procs, schedules, jobs, rd, now) \subseteq Range(fired')
                  /\ scheduler_thread' = "running")]_vars

(***************************************************************************)
(* C11: in every reachable state, whatever the interleaving of apply,      *)
(* remove and compute_boost steps of the threads (calls for the same pid   *)
(* included), the record table holds at most one record per pid.           *)
(***************************************************************************)
C11_OneRecordPerPid ==
    \A i, j \in 1..Len(optimized_processes) : optimized_processes[i].pid = optimized_processes[j].pid => i = j

\* two threads applied to the same pid at once: one has stored its record, the other is about to
C11_Witness ==
    \E t, u \in Tids :
        /\ threads[t].pc = "done" /\ threads[t].op = "optimize_process" /\ threads[t].ok
        /\ threads[u].pc = "store" /\ threads[u].pid = threads[t].pid
        /\ HasRecord(optimized_processes, threads[u].pid)

(***************************************************************************)
(* C12: remove after apply.  When pid has a record (an apply succeeded),   *)
(* its process still exists and can be modified, remove(pid) returns true, *)
(* leaves the process at normal priority with affinity to all cores, and   *)
(* leaves no record for pid.                                               *)
(***************************************************************************)
C12_RemoveAfterApply ==
    [][\A pid \in Pids, env \in OptEnvs :
          (remove_optimization(pid, env) /\ HasRecord(optimized_processes, pid) /\ procs[pid].alive /\ env.access = "ok")
          => /\ last'.ok
             /\ procs'[pid].nice = PriorityValue(platform, "normal")
             /\ procs'[pid].affinity = AllCores
             /\ ~HasRecord(optimized_processes', pid)]_vars

(***************************************************************************)
(* C13: a record is destroyed when its process is confirmed gone.  After   *)
(* remove(pid) or compute_boost(pid) ran for a pid whose process no longer *)
(* exists, the record table holds no record for pid.                       *)
(***************************************************************************)
C13_GoneProcessHasNoRecord ==
    [][\A pid \in Pids, env \in OptEnvs :
          ((remove_optimization(pid, env) \/ calculate_boost(pid, env)) /\ ~procs[pid].alive)
          => ~HasRecord(optimized_processes', pid)]_vars

(***************************************************************************)
(* C14: process-not-found is an ordinary outcome.  Called for a pid whose  *)
(* process has exited, none of apply, remove, compute_boost and            *)
(* get_details raises: apply returns (false, reason) with a non-empty      *)
(* reason, remove returns false, compute_boost returns an integer and      *)
(* get_details returns the not-found value.                                *)
(***************************************************************************)
C14_NotFoundIsOrdinary ==
    [][\A pid \in Pids, env \in OptEnvs :
          ~procs[pid].alive
          => /\ \A pn \in ProfileNames :
                   optimize_process(pid, pn, env)
                   => /\ ~last'.raised /\ ~last'.ok
                      /\ OptimizeProcess(platform, procs, optimized_processes, pid, pn, env, now).msg # <<>>
             /\ remove_optimization(pid, env) => (~last'.raised /\ ~last'.ok)
             /\ calculate_boost(pid, env)
                   => /\ ~last'.raised
                      /\ CalculateBoost(platform, procs, optimized_processes, pid, env).value \in Int
             /\ get_process_details(pid, env) => (~last'.raised /\ ~last'.ok)]_vars

\* compute_boost has just returned for a pid that has a record and whose process has exited
C14_Witness ==
    \E pid \in Pids : last.op = "calculate_boost" /\ last.pids = {pid} /\ last.pre /\ ~procs[pid].alive

\* thread t takes the step of opt_store: only opt_store moves a call out of "store"
StoreStep(t) ==
    /\ threads[t].op = "optimize_process" /\ threads[t].pc = "store"
    /\ threads'[t].pc # "store"

\* thread t takes the step of opt_log: only opt_log moves a call out of "log"
LogStep(t) ==
    /\ threads[t].op = "optimize_process" /\ threads[t].pc = "log"
    /\ threads'[t].pc # "log"

(***************************************************************************)
(* C15: partial apply is success.  Once apply has resolved the process,    *)
(* the call ends by creating the record and returning ok = true, whatever  *)
(* tuning actions failed and also when the process exited partway through  *)
(* the action sequence; the record's applied actions are exactly the       *)
(* actions that succeeded.                                                 *)
(***************************************************************************)
C15_PartialApplyIsSuccess ==
    [][\A t \in Tids :
          /\ StoreStep(t)
             => /\ threads'[t].pc = "log"
                /\ HasRecord(optimized_processes', threads[t].pid)
                /\ RecordOf(optimized_processes', threads[t].pid).optimizations = threads[t].applied
          /\ LogStep(t) => threads'[t].ok]_vars

(***************************************************************************)
(* C16: profile resolution is a deterministic ordered match.  The profile  *)
(* named profile_name is used when a name is given and is a key of the     *)
(* table; otherwise the first profile, in declaration order, whose key is  *)
(* contained in the lowercased process name; otherwise the default         *)
(* profile.  Chrome helper .exe without a name resolves to chrome.         *)
(***************************************************************************)
C16_ProfileResolution ==
    (probe.fn = "select_profile" /\ probe.out # Pending)
    => LET given   == probe.profile_name # "None" /\ probe.profile_name \in {ProfileKeys[i] : i \in 1..Len(ProfileKeys)}
           matches == {i \in 1..Len(ProfileKeys) : Contains(Lower(probe.name), <<ProfileKeys[i]>>)}
       IN /\ given => probe.out = probe.profile_name
          /\ (~given /\ matches # {}) => \E i \in matches : probe.out = ProfileKeys[i] /\ \A j \in matches : i <= j
          /\ (~given /\ matches = {}) => probe.out = "default"
          /\ (probe.profile_name = "None" /\ probe.name = <<"Chrome", "helper", ".exe">>) => probe.out = "chrome"

\* a name that holds two keys of the table, resolved without a usable profile name
C16_Witness ==
    /\ probe.fn = "select_profile" /\ probe.out = "chrome" /\ probe.profile_name = "turbo"
    /\ Contains(Lower(probe.name), <<"game">>) /\ Contains(Lower(probe.name), <<"chrome">>)

(***************************************************************************)
(* C17: boost clamp.  Whatever the metrics before and now (CPU before 0,   *)
(* CPU before far above CPU now, CPU now above CPU before), compute_boost  *)
(* returns an integer in 0..999, and every record's boost_percentage is in *)
(* 0..999 in every state.                                                  *)
(***************************************************************************)
C17_BoostClamp ==
    [][/\ \A pid \in Pids, env \in OptEnvs :
             calculate_boost(pid, env) => CalculateBoost(platform, procs, optimized_processes, pid, env).value \in 0..999
       /\ \A i \in 1..Len(optimized_processes') : optimized_processes'[i].boost_percentage \in 0..999]_vars

\* a boost was computed for a record whose CPU usage before was 0
C17_Witness ==
    \E pid \in Pids :
        /\ last.op = "calculate_boost" /\ last.pids = {pid} /\ HasRecord(optimized_processes, pid)
        /\ RecordOf(optimized_processes, pid).metrics_before.cpu_percent = 0
        /\ RecordOf(optimized_processes, pid).boost_percentage > 0

\* the priority is in a tier above the platform's normal one
AboveNormal(plat, nice) == nice \in {PriorityValue(plat, p) : p \in {"above_normal", "high", "realtime"}}

(***************************************************************************)
(* C18: the priority term of compute_boost is +30 exactly when the         *)
(* process's priority is above the platform's normal tier (above_normal,   *)
(* high, realtime) and 0 when it is normal or below, on every platform.    *)
(***************************************************************************)
C18_PriorityTerm ==
    [][\A pid \in Pids, env \in OptEnvs :
          (calculate_boost(pid, env) /\ HasRecord(optimized_processes, pid) /\ procs[pid].alive /\ env.access # "hidden")
          => CalculateBoost(platform, procs, optimized_processes, pid, env).value =
                Min(CpuFactor(RecordOf(optimized_processes, pid).metrics_before.cpu_percent, GetProcessMetrics(procs[pid], env).cpu_percent)
                    + BaseBoost(RecordOf(optimized_processes, pid).optimizations)
                    + (IF AboveNormal(platform, procs[pid].nice) THEN 30 ELSE 0), 999)]_vars

\* the entries of a classifier pass that name the pid
EntriesOf(out, pid) == {k \in 1..Len(out) : out[k].pid = pid}

(***************************************************************************)
(* C19: classifier cascade.  In one detect pass each pid appears in at     *)
(* most one entry, and a process is attributed to the highest-priority     *)
(* rule it matches: exact known-games match, then indicator token, then    *)
(* system GPU load above 30%; a process a higher rule matched gets no      *)
(* entry from a lower rule.                                                *)
(***************************************************************************)
C19_ClassifierCascade ==
    (probe.fn = "detect_games" /\ probe.out # Pending)
    => \A i \in 1..Len(probe.processes) :
          LET p     == probe.processes[i]
              known == IsKnownGame(Lower(p.name))
              ind   == HasIndicator(Lower(p.name))
              gpu   == probe.gpu.available /\ probe.gpu.load > 30
              es    == EntriesOf(probe.out, p.pid)
          IN /\ Cardinality(es) <= 1
             /\ (known \/ ind \/ gpu) = (es # {})
             /\ \A k \in es :
                   /\ known => /\ probe.out[k].name = KnownGame(Lower(p.name)).name
                               /\ probe.out[k].type = KnownGame(Lower(p.name)).type
                               /\ ("detected_by" \in DOMAIN probe.out[k] => probe.out[k].detected_by \notin {"indicator", "gpu_usage"})
                   /\ (~known /\ ind) => probe.out[k].detected_by = "indicator"
                   /\ (~known /\ ~ind) => probe.out[k].detected_by = "gpu_usage"

\* a pass over a process that matches all three rules at once
C19_Witness ==
    /\ probe.fn = "detect_games" /\ probe.out # Pending
    /\ \E i \in 1..Len(probe.processes) :
          /\ IsKnownGame(Lower(probe.processes[i].name)) /\ HasIndicator(Lower(probe.processes[i].name))
          /\ CheckGpuUsage(probe.gpu)
          /\ EntriesOf(probe.out, probe.processes[i].pid) # {}

(***************************************************************************)
(* C20: a snapshot whose lowercased name is a key of the known-games table *)
(* is reported as one entry carrying the table entry's display name and    *)
(* genre and detected_by = "known" (valorant.exe: name "Valorant",         *)
(* detected_by "known").                                                   *)
(***************************************************************************)
C20_KnownGameEntry ==
    (probe.fn = "detect_games" /\ probe.out # Pending)
    => \A i \in 1..Len(probe.processes) :
          IsKnownGame(Lower(probe.processes[i].name))
          => /\ Cardinality(EntriesOf(probe.out, probe.processes[i].pid)) = 1
             /\ \A k \in EntriesOf(probe.out, probe.processes[i].pid) :
                   /\ probe.out[k].name = KnownGame(Lower(probe.processes[i].name)).name
                   /\ probe.out[k].type = KnownGame(Lower(probe.processes[i].name)).type
                   /\ "detected_by" \in DOMAIN probe.out[k]
                   /\ probe.out[k].detected_by = "known"

\* C21: in every reachable state every enabled schedule whose type is not startup has a
\* next_run that is set and not earlier than the current time
C21_EnabledNextRunAhead ==
    \A i \in 1..Len(schedules) :
        (schedules[i].enabled /\ schedules[i].type # "startup")
            => (schedules[i].next_run # NoTime /\ schedules[i].next_run >= now)

\* C22: whenever a daily schedule is given its timer (by add_schedule or by enabling it),
\* the next_run recorded for it is the next occurrence of its time of day strictly after
\* that moment: later than now, at most one day later, and at the schedule's time of day
C22_DailyNextRun ==
    [][\A sid \in 1..MaxSchedules :
          (/\ HasSchedule(schedules', sid)
           /\ ScheduleOf(schedules', sid).type = "daily"
           /\ ScheduleOf(schedules', sid).job # NoJob
           /\ HasSchedule(schedules, sid) => ScheduleOf(schedules, sid).job # ScheduleOf(schedules', sid).job)
              => (/\ ScheduleOf(schedules', sid).next_run > now
                  /\ ScheduleOf(schedules', sid).next_run <= now + DayLength
                  /\ TimeOfDay(ScheduleOf(schedules', sid).next_run) = ScheduleOf(schedules', sid).time)]_vars

\* two daily schedules at minute 1 that have not fired yet: one created before that minute
\* of the day (due the same day), one created at or after it (due the following day)
C22_Witness ==
    \E i, j \in 1..Len(schedules) :
        /\ schedules[i].type = "daily" /\ schedules[i].job # NoJob /\ schedules[i].last_run = NoTime
        /\ schedules[i].next_run = 1
        /\ schedules[j].type = "daily" /\ schedules[j].job # NoJob /\ schedules[j].last_run = NoTime
        /\ schedules[j].next_run = DayLength + 1

\* C23: at a check of an enabled idle schedule (its 5-minute timer is due in a pass of the
\* loop) the action list runs only if the CPU usage observed is below the idle threshold;
\* at or above the threshold nothing runs, last_run is unchanged and next_run advances to
\* the following check
C23_IdleCheck ==
    [][\A rd \in SchedReadings, env \in SchedEnvs :
          scheduler_loop(rd, env, NoFault)
              => \A i \in 1..Len(schedules) :
                    (/\ schedules[i].type = "idle"
                     /\ schedules[i].enabled
                     /\ schedules[i].job # NoJob
                     /\ ShouldRun(jobs[schedules[i].job], now))
                        => (/\ schedules[i].id \in Range(fired') => TopCpu(GetProcesses(procs, rd)) < IdleThreshold
                            /\ TopCpu(GetProcesses(procs, rd)) >= IdleThreshold
                                  => (/\ schedules[i].id \notin Range(fired')
                                      /\ schedules'[i].last_run = schedules[i].last_run
                                      /\ schedules'[i].next_run = now + IdlePeriod))]_vars

\* C24: every firing attempts each action of the schedule's action list exactly once, in
\* list order, whichever of them raised: the actions attempted in a firing are the action
\* list itself
C24_EveryActionAttempted ==
    /\ Len(attempted) = Len(fired)
    /\ \A k \in 1..Len(fired) :
          HasSchedule(schedules, fired[k]) => attempted[k] = ScheduleOf(schedules, fired[k]).actions

\* a firing whose first action raised and whose second action ran after it and optimized
\* the busy process
C24_Witness ==
    \E k \in 1..Len(fired) :
        /\ HasSchedule(schedules, fired[k])
        /\ Len(attempted[k]) = 2
        /\ ActionRaises(attempted[k][1])
        /\ attempted[k][2] = "optimize_all"
        /\ HasRecord(optimized_processes, 1)

\* C25: after every add, remove, update, enable, disable and after every firing the saved
\* schedules have exactly the ids of the schedule table and, for each id, the same type,
\* time, interval, action list, enabled flag and last_run
C25_PersistenceTracks ==
    /\ Len(saved_schedules) = Len(schedules)
    /\ \A i \in 1..Len(schedules) :
          /\ saved_schedules[i].id = schedules[i].id
          /\ saved_schedules[i].type = schedules[i].type
          /\ saved_schedules[i].time = schedules[i].time
          /\ saved_schedules[i].interval = schedules[i].interval
          /\ saved_schedules[i].actions = schedules[i].actions
          /\ saved_schedules[i].enabled = schedules[i].enabled
          /\ saved_schedules[i].last_run = schedules[i].last_run

\* C26: get_processes returns at most 30 entries, ordered by CPU percentage descending,
\* each carrying pid, name and cpu_percent of a process of the table that is not
\* negligible, and no process of the table that is not negligible and not in the result
\* has a higher CPU percentage than one in the result
C26_PollTopByCpu ==
    (probe.fn = "get_processes" /\ probe.out # Pending)
    => (/\ Len(probe.out) <= TopProcesses
        /\ \A i, j \in 1..Len(probe.out) : i < j => probe.out[i].cpu_percent >= probe.out[j].cpu_percent
        /\ \A i \in 1..Len(probe.out) :
              /\ {"pid", "name", "cpu_percent"} \subseteq DOMAIN probe.out[i]
              /\ probe.out[i] \in Range(probe.table)
              /\ ~Negligible(probe.out[i])
        /\ \A k \in 1..Len(probe.table) :
              (~Negligible(probe.table[k]) /\ probe.table[k] \notin Range(probe.out))
                  => \A i \in 1..Len(probe.out) : probe.table[k].cpu_percent <= probe.out[i].cpu_percent)

\* the positions of the records, as the dict orders them
PositionOf(recs, pid) == CHOOSE i \in 1..Len(recs) : recs[i].pid = pid

\* C27: get_optimization_stats over the records returns total_optimized = the number of
\* records, total_boost = the sum of their boost_percentage, average_boost = total_boost /
\* total_optimized (0 without records) and a top list of at most 5 records in
\* non-increasing boost order, records of equal boost in insertion order, the highest
\* boosts of the table; the records are left as they were
C27_Stats ==
    [][get_optimization_stats
          => LET recs == probe.recs
                 out  == probe'.out
                 top  == probe'.out.top_processes
             IN /\ probe'.recs = probe.recs
                /\ optimized_processes' = optimized_processes
                /\ out.total_optimized = Len(recs)
                /\ out.total_boost = SumBoost(recs)
                /\ IF Len(recs) = 0 THEN out.average_boost.num = 0
                   ELSE out.average_boost.num * Len(recs) = out.total_boost * out.average_boost.den
                /\ Len(top) = Min(Len(recs), StatsTop)
                /\ \A i \in 1..Len(top) :
                      /\ HasRecord(recs, top[i].pid)
                      /\ top[i].name = RecordOf(recs, top[i].pid).name
                      /\ top[i].boost = RecordOf(recs, top[i].pid).boost_percentage
                /\ \A i, j \in 1..Len(top) :
                      i < j => (/\ top[i].boost >= top[j].boost
                                /\ top[i].pid # top[j].pid
                                /\ top[i].boost = top[j].boost => PositionOf(recs, top[i].pid) < PositionOf(recs, top[j].pid))
                /\ \A k \in 1..Len(recs) :
                      (\A i \in 1..Len(top) : top[i].pid # recs[k].pid)
                          => \A i \in 1..Len(top) : recs[k].boost_percentage <= top[i].boost]_vars

\* statistics over six records of which three share the highest boost: the top list is cut
\* to five and holds entries of equal boost
C27_Witness ==
    /\ probe.fn = "get_optimization_stats" /\ probe.pc = "return"
    /\ Len(probe.recs) = MaxRecords
    /\ Len(probe.out.top_processes) = StatsTop
    /\ probe.out.top_processes[1].boost = probe.out.top_processes[3].boost
    /\ probe.out.top_processes[3].boost > probe.out.top_processes[4].boost
    /\ probe.out.total_boost > 0

\* the process runs with the priority and the cores of the profile
TunedAs(plat, proc, key) ==
    /\ proc.nice = PriorityValue(plat, ProfileTable[key].priority)
    /\ plat # "Darwin" => proc.affinity = AffinityCores(ProfileTable[key].cpu_affinity)

\* thread t has returned success from op(pid)
ReturnedOk(t, op, pid) ==
    threads[t].pc = "done" /\ threads[t].op = op /\ threads[t].pid = pid /\ threads[t].ok

\* C28: once an optimize_process(pid) and a remove_optimization(pid) issued by two threads
\* have both returned success, the state is that of one of the two sequential orders:
\* either no record and the process reset (apply, then remove), or a record and the
\* process tuned as that record says (remove, then apply) - never a record for a process
\* the removal has reset, nor a tuned process without a record
C28_ApplyRemoveSerialized ==
    \A pid \in Pids, t, u \in Tids :
        (/\ t # u
         /\ ReturnedOk(t, "optimize_process", pid)
         /\ ReturnedOk(u, "remove_optimization", pid)
         /\ procs[pid].alive)
            => \/ ~HasRecord(optimized_processes, pid) /\ procs[pid] = NewProcess(platform)
               \/ /\ HasRecord(optimized_processes, pid)
                  /\ TunedAs(platform, procs[pid], RecordOf(optimized_processes, pid).profile)

\* C29: whatever the other threads do meanwhile - a remove_optimization(pid) deleting the
\* record after the membership check included - a calculate_boost(pid) that has returned
\* raised nothing and returned an integer
C29_BoostNeverRaises ==
    \A t \in Tids :
        (threads[t].pc = "done" /\ threads[t].op = "calculate_boost")
            => (~threads[t].raised /\ threads[t].value \in 0..999)

\* thread t is inside enable_game_mode or disable_game_mode
InSession(t) == Running(t) /\ threads[t].op \in {"enable_game_mode", "disable_game_mode"}

\* C30: enable_game_mode and disable_game_mode are mutually exclusive - in no reachable
\* state are two of these calls in progress at once - so original_settings is never
\* captured by one enable after another one has applied the game-mode settings: the
\* settings saved are never the game mode's own power plan
C30_SessionMutex ==
    /\ \A t, u \in Tids : t # u => ~(InSession(t) /\ InSession(u))
    /\ "power_plan" \in DOMAIN original_settings => original_settings.power_plan # "high_performance"

\* a step of the loop thread starts the actions of schedule sid
StartsActions(sid) == fired' # <<>> /\ fired'[1] = sid

\* The first half of C31, which the code keeps: a step that starts the actions of a
\* schedule finds it in the table and enabled, so nothing is started for a schedule whose
\* remove_schedule or enable_schedule(id, False) has returned
C31_NoStartAfterEdit ==
    [][\A sid \in 1..MaxSchedules :
          StartsActions(sid) => HasSchedule(schedules, sid) /\ ScheduleOf(schedules, sid).enabled]_vars

\* C31: schedule edits are atomic relative to ticks: an edit (add, enable, disable or
\* remove, none of which fails by itself here) that runs while the loop thread is inside
\* a firing never makes the firing raise, so the loop thread never ends by an exception
C31_EditNeverStopsLoop ==
    /\ scheduler_thread # "crashed"
    /\ \A t \in Tids : threads[t].pc = "done" => ~threads[t].raised

\* C32: enable/disable round trip of the system settings.  In GameSpec the GPU mode and
\* the network tuning start at "default" and only enable_game_mode writes them, so when a
\* disable_game_mode that found a session has returned, the power plan is the one the
\* snapshot holds and the GPU mode and the network tuning are back at the values they had
\* before the enable
C32_SettingsRoundTrip ==
    (last.op = "disable_game_mode" /\ last.pre) =>
        /\ sys.power_plan = original_settings.power_plan
        /\ sys.gpu_mode = "default"
        /\ sys.net_tuning = "default"

\* the CPU term of the boost as C33 words it, rounded down: max(0, (before - now) / before) * 100
\* when before > 0, otherwise 0
CpuTerm(cpu_before, cpu_now) ==
    IF cpu_before > 0 /\ cpu_before > cpu_now THEN ((cpu_before - cpu_now) * 100) \div cpu_before ELSE 0

\* v is min(999, floor(C + 25 * n + P)) for the record rec, the reading cpu_now and a
\* priority term P of 0 or 30
BoostOf(rec, cpu_now, v) ==
    \E P \in {0, 30} :
        v = Min(999, CpuTerm(rec.metrics_before.cpu_percent, cpu_now) + 25 * Len(rec.optimizations) + P)

\* C33: for a pid with a record whose process exists, calculate_boost returns
\* min(999, floor(C + 25 * n + P)), n the number of optimizations of the record, P the
\* priority term (0 or 30) and C the CPU term; for a pid with no record it returns 0
C33_BoostFormula ==
    [][\A pid \in Pids, env \in OptEnvs :
          calculate_boost(pid, env) =>
             IF ~HasRecord(optimized_processes, pid)
             THEN CalculateBoost(platform, procs, optimized_processes, pid, env).value = 0
             ELSE procs[pid].alive =>
                     BoostOf(RecordOf(optimized_processes, pid), GetProcessMetrics(procs[pid], env).cpu_percent,
                             CalculateBoost(platform, procs, optimized_processes, pid, env).value)]_vars

\* What the code keeps of C33: the formula holds whenever the reads inside calculate_boost
\* go through (psutil raises neither NoSuchProcess nor AccessDenied)
C33_BoostFormulaReadable ==
    [][\A pid \in Pids, env \in OptEnvs :
          (calculate_boost(pid, env) /\ HasRecord(optimized_processes, pid) /\ procs[pid].alive /\ env.access # "hidden")
          => BoostOf(RecordOf(optimized_processes, pid), GetProcessMetrics(procs[pid], env).cpu_percent,
                     CalculateBoost(platform, procs, optimized_processes, pid, env).value)]_vars

\* the fields of a record other than the boost
Unboosted(rec) == [rec EXCEPT !.boost_percentage = 0]

C35_FailedApplyStoresNothing ==
    [][\A t \in Tids :
          (LogStep(t) /\ ~threads'[t].ok) => optimized_processes' = threads[t].before]_vars

RECURSIVE SumTop(_)
\* the boosts of a top list added up
SumTop(top) == IF top = <<>> THEN 0 ELSE Head(top).boost + SumTop(Tail(top))

\* the stats v are those of one table: the count is the length of the top list (up to
\* its limit) and, below the limit, the total is the sum of the listed boosts
OneTable(v) ==
    /\ Len(v.top_processes) = Min(v.total_optimized, StatsTop)
    /\ v.total_optimized <= StatsTop => v.total_boost = SumTop(v.top_processes)
    /\ v.average_boost = Average(v.total_boost, v.total_optimized)

\* C36: get_optimization_stats running while other threads apply and remove is a
\* consistent-snapshot read: it never raises, and the total_optimized, total_boost,
\* average_boost and top_processes it returns are those of one single table
C36_StatsSnapshot ==
    \A t \in Tids :
        (threads[t].pc = "done" /\ threads[t].op = "get_optimization_stats")
        => ~threads[t].raised /\ OneTable(threads[t].value)

\* C37: metrics_before is a pre-apply snapshot: the record an optimize_process call
\* stores holds the metrics of the process as they were when the call began, before its
\* first tuning action (priority, line 142) was executed
C37_MetricsBeforeTuning ==
    [][\A t \in Tids :
          (StoreStep(t) /\ threads'[t].pc = "log")
          => RecordOf(optimized_processes', threads[t].pid).metrics_before.cpu_percent = threads[t].cpu0]_vars

\* the jobs in the timer registry that call _run_schedule (or the idle check) for sid
Registrations(sid) == {i \in 1..Len(jobs) : jobs[i].registered /\ jobs[i].sid = sid}

\* C38: timer-registration invariant.  After any sequence of add_schedule,
\* update_schedule, enable_schedule and remove_schedule, a timed schedule (interval here:
\* one trigger slot) has exactly one job in the registry when it is in the table and
\* enabled, and none when it is disabled or removed
C38_OneRegistrationPerSlot ==
    \A sid \in 1..MaxSchedules :
        IF HasSchedule(schedules, sid) /\ ScheduleOf(schedules, sid).enabled
        THEN MakesJob(ScheduleOf(schedules, sid)) => Cardinality(Registrations(sid)) = 1
        ELSE Registrations(sid) = {}

\* C39: disable_game_mode removes records only for pids to which the enabling
\* enable_game_mode applied the game profile: the record of a pid that no enable call was
\* given (one optimized by hand, seen by a classifier pass or not) is still in the table,
\* unchanged, after a disable_game_mode that ended a session
C39_DisableScope ==
    [][\A env \in GameEnvs, pid \in Outsiders :
          (disable_game_mode(env) /\ game_mode_active)
          => RecordOrNone(optimized_processes', pid) = RecordOrNone(optimized_processes, pid)]_vars

\* C40: stopping terminates the loops.  For the monitor and for the scheduler: once the
\* stopping thread has cleared the flag and waits in join, stop returns; when it returns
\* the loop thread has ended; a thread that has ended runs no pass again, the only way
\* to a live loop thread being a start that finds the flag cleared; subscribers are
\* called and jobs fired only inside a pass of a live loop thread; and start creates a
\* thread only when no loop thread is alive, so there is never a second one
C40_StopTerminates ==
    /\ \A t \in Tids : (threads[t].pc = "join") ~> (threads[t].pc = "done")
    /\ [][/\ \A t \in Tids : mon_join(t) => ~Alive(monitor_thread')
          /\ \A t \in Tids : sched_join(t) => ~Alive(scheduler_thread')
          /\ (~Alive(monitor_thread) /\ Alive(monitor_thread')) => (~monitoring /\ monitoring')
          /\ (~Alive(scheduler_thread) /\ Alive(scheduler_thread')) => (~running /\ running')
          /\ (monitor_called' # monitor_called \/ process_cache' # process_cache) => monitor_thread = "in_pass"
          /\ (fired' # <<>> /\ schedVars' # schedVars) => scheduler_thread = "in_pass"
          /\ (~monitoring /\ monitoring') => ~Alive(monitor_thread)
          /\ (~running /\ running') => ~Alive(scheduler_thread)]_vars

\* stop_monitoring has returned for a loop that had called its subscriber and has ended,
\* and the scheduler loop has been stopped too after it had fired the schedule
C40_Witness ==
    /\ \E t \in Tids : threads[t].pc = "done" /\ threads[t].op = "stop_monitoring"
    /\ monitor_thread = "exited" /\ ~monitoring /\ monitor_called # <<>>
    /\ scheduler_thread = "exited" /\ ~running
    /\ \E i \in 1..Len(schedules) : schedules[i].runs > 0

====
